---- MODULE Spec2Model ----
(***************************************************************************)
(* Model of the SVG batch transformers of the repository:                  *)
(*   beautify_all_svgs, fix_all_svgs, fix_svg_attributes,                  *)
(*   fix_svgs_properly, minimal_svg_fix, safe_svg_improve.                 *)
(*                                                                         *)
(* A file's text is a sequence of tokens.  A token is a record             *)
(* [k, name, val]: k is the kind of the token, name an element or          *)
(* attribute name, val the characters of an attribute value (a sequence    *)
(* of one-character strings; a longer string in val is a run of            *)
(* characters that no pattern of the scripts looks inside).                *)
(*   k = "open"   the text  <name                                          *)
(*   k = "attr"   the text  name="val"                                     *)
(*   k = "ws"     white space, val holds its characters                    *)
(*   k = "gt"     the text  >                                              *)
(*   k = "sgt"    the text  />                                             *)
(*   k = "slash"  a  /  that is not followed by  >                         *)
(*   k = "close"  the text  </name>                                        *)
(*   k = "xml"    an XML declaration  <?xml ...?>                          *)
(*   k = "cmt"    a comment  <!-- name -->                                 *)
(*   k = "text"   character data, name holds it                            *)
(***************************************************************************)
EXTENDS Integers, Sequences, FiniteSets, TLC

(***************************************************************************)
(* Characters, decimal numbers and letter case.                            *)
(***************************************************************************)
Digits == <<"0", "1", "2", "3", "4", "5", "6", "7", "8", "9">>

IsDigit(c) == \E i \in 1..10 : Digits[i] = c

DigitVal(c) == CHOOSE d \in 0..9 : Digits[d + 1] = c

\* the pattern \d+ : a non-empty run of decimal digits
IsDigits(s) == Len(s) > 0 /\ \A i \in 1..Len(s) : IsDigit(s[i])

\* int(s) for s matching \d+ (leading zeros are dropped)
RECURSIVE ParseInt(_)
ParseInt(s) ==
    IF s = <<>> THEN 0
    ELSE 10 * ParseInt(SubSeq(s, 1, Len(s) - 1)) + DigitVal(s[Len(s)])

RECURSIVE FormatNat(_)
FormatNat(n) ==
    IF n < 10 THEN <<Digits[n + 1]>>
    ELSE FormatNat(n \div 10) \o <<Digits[(n % 10) + 1]>>

\* str(n), as an f-string formats an int
Str(n) == IF n < 0 THEN <<"-">> \o FormatNat(0 - n) ELSE FormatNat(n)

UpperLetters ==
    <<"A", "B", "C", "D", "E", "F", "G", "H", "I", "J", "K", "L", "M", "N", "O", "P", "Q", "R", "S", "T", "U", "V", "W", "X", "Y", "Z">>

LowerLetters ==
    <<"a", "b", "c", "d", "e", "f", "g", "h", "i", "j", "k", "l", "m", "n", "o", "p", "q", "r", "s", "t", "u", "v", "w", "x", "y", "z">>

\* the lower case letter of every upper case letter
ToLower ==
    [c \in {UpperLetters[i] : i \in 1..26} |->
        LowerLetters[CHOOSE i \in 1..26 : UpperLetters[i] = c]]

\* the upper case letter of every lower case letter
ToUpper ==
    [c \in {LowerLetters[i] : i \in 1..26} |->
        UpperLetters[CHOOSE i \in 1..26 : LowerLetters[i] = c]]

LowerChar(c) == IF c \in DOMAIN ToLower THEN ToLower[c] ELSE c

UpperChar(c) == IF c \in DOMAIN ToUpper THEN ToUpper[c] ELSE c

\* str.lower(), character by character
Lower(s) == [i \in 1..Len(s) |-> LowerChar(s[i])]

Upper(s) == [i \in 1..Len(s) |-> UpperChar(s[i])]

\* a spelling that alternates lower and upper case letters
Mixed(s) == [i \in 1..Len(s) |-> IF i % 2 = 0 THEN LowerChar(s[i]) ELSE UpperChar(s[i])]

\* equality of two strings under re.IGNORECASE
EqIgnoreCase(s, t) == Lower(s) = Lower(t)

(***************************************************************************)
(* Tokens.                                                                 *)
(***************************************************************************)
Open(e) == [k |-> "open", name |-> e, val |-> <<>>]

Attr(n, v) == [k |-> "attr", name |-> n, val |-> v]

Ws(v) == [k |-> "ws", name |-> "", val |-> v]

Sp == Ws(<<" ">>)

Nl == Ws(<<"\n">>)

Gt == [k |-> "gt", name |-> "", val |-> <<>>]

Sgt == [k |-> "sgt", name |-> "", val |-> <<>>]

Slash == [k |-> "slash", name |-> "", val |-> <<>>]

Close(e) == [k |-> "close", name |-> e, val |-> <<>>]

Xml == [k |-> "xml", name |-> "", val |-> <<>>]

Cmt(s) == [k |-> "cmt", name |-> s, val |-> <<>>]

Text(s) == [k |-> "text", name |-> s, val |-> <<>>]

\* the token's text contains the character ">"
HasGt(t) == t.k \in {"gt", "sgt", "close", "xml", "cmt"}

IsOpen(t, e) == t.k = "open" /\ t.name = e

\* the text  suffix="  occurs at the token: the attribute name ends with
\* suffix (width=" also occurs in stroke-width=")
NameEnds(n, suffix) ==
    \/ n = suffix
    \/ suffix = "width" /\ n = "stroke-width"

IsAttr(t, suffix) == t.k = "attr" /\ NameEnds(t.name, suffix)

\* index of the first token at or after i that satisfies Test, 0 if none
FirstFrom(c, i, Test(_)) ==
    IF \E j \in i..Len(c) : Test(c[j])
    THEN CHOOSE j \in i..Len(c) : Test(c[j]) /\ \A m \in i..(j - 1) : ~Test(c[m])
    ELSE 0

\* the least index x in i..n with P(x), 0 if there is none
FirstIdx(n, i, P(_)) ==
    LET S == {x \in i..n : P(x)}
    IN  IF S = {} THEN 0 ELSE CHOOSE x \in S : \A y \in S : x <= y

\* the tokens of c with those at positions i..j replaced by r
Splice(c, i, j, r) == SubSeq(c, 1, i - 1) \o r \o SubSeq(c, j + 1, Len(c))

\* the same text in its one token form: neighbouring runs of white space
\* are one run
RECURSIVE Canon(_)
Canon(c) ==
    LET o == FirstIdx(Len(c) - 1, 1, LAMBDA x : c[x].k = "ws" /\ c[x + 1].k = "ws")
    IN  IF o = 0 THEN c
        ELSE Canon(Splice(c, o, o + 1, <<Ws(c[o].val \o c[o + 1].val)>>))

\* c with every token replaced by F(token)
MapTokens(c, F(_)) == <<>> \o [i \in 1..Len(c) |-> F(c[i])]

(***************************************************************************)
(* The colour tables of the scripts.                                       *)
(***************************************************************************)
\* fix_svgs_properly.fix_svg_content: the table color_replacements, in source order
color_replacements ==
    <<
      <<<<"#", "C", "B", "D", "5", "E", "0">>, <<"#", "1", "F", "2", "9", "3", "7">>>>,
      <<<<"#", "A", "0", "A", "E", "C", "0">>, <<"#", "3", "7", "4", "1", "5", "1">>>>,
      <<<<"#", "E", "2", "E", "8", "F", "0">>, <<"#", "1", "F", "2", "9", "3", "7">>>>,
      <<<<"#", "E", "D", "F", "2", "F", "7">>, <<"#", "1", "1", "1", "8", "2", "7">>>>,
      <<<<"#", "F", "7", "F", "A", "F", "C">>, <<"#", "1", "1", "1", "8", "2", "7">>>>,
      <<<<"#", "9", "C", "A", "3", "A", "F">>, <<"#", "3", "7", "4", "1", "5", "1">>>>,
      <<<<"#", "D", "1", "D", "5", "D", "B">>, <<"#", "4", "B", "5", "5", "6", "3">>>>,
      <<<<"#", "7", "1", "8", "0", "9", "6">>, <<"#", "3", "7", "4", "1", "5", "1">>>>,
      <<<<"#", "4", "A", "5", "5", "6", "8">>, <<"#", "1", "F", "2", "9", "3", "7">>>>,
      <<<<"#", "9", "0", "C", "D", "F", "4">>, <<"#", "1", "E", "4", "0", "A", "F">>>>,
      <<<<"#", "6", "3", "B", "3", "E", "D">>, <<"#", "2", "5", "6", "3", "E", "B">>>>,
      <<<<"#", "4", "A", "9", "0", "E", "2">>, <<"#", "1", "D", "4", "E", "D", "8">>>>,
      <<<<"#", "8", "1", "E", "6", "D", "9">>, <<"#", "0", "E", "7", "4", "9", "0">>>>,
      <<<<"#", "4", "F", "D", "1", "C", "5">>, <<"#", "0", "8", "9", "1", "B", "2">>>>,
      <<<<"#", "3", "8", "D", "4", "B", "2">>, <<"#", "0", "D", "9", "4", "8", "8">>>>,
      <<<<"#", "E", "9", "D", "8", "F", "D">>, <<"#", "6", "B", "2", "1", "A", "8">>>>,
      <<<<"#", "D", "6", "B", "C", "F", "A">>, <<"#", "7", "C", "3", "A", "E", "D">>>>,
      <<<<"#", "B", "7", "9", "4", "F", "4">>, <<"#", "9", "3", "3", "3", "E", "A">>>>,
      <<<<"#", "9", "F", "7", "A", "E", "A">>, <<"#", "7", "C", "3", "A", "E", "D">>>>,
      <<<<"#", "F", "B", "D", "3", "8", "D">>, <<"#", "C", "2", "4", "1", "0", "C">>>>,
      <<<<"#", "F", "6", "A", "D", "5", "5">>, <<"#", "E", "A", "5", "8", "0", "C">>>>,
      <<<<"#", "E", "D", "8", "9", "3", "6">>, <<"#", "C", "2", "4", "1", "0", "C">>>>,
      <<<<"#", "F", "E", "B", "2", "B", "2">>, <<"#", "B", "9", "1", "C", "1", "C">>>>,
      <<<<"#", "F", "C", "8", "1", "8", "1">>, <<"#", "D", "C", "2", "6", "2", "6">>>>,
      <<<<"#", "E", "5", "3", "E", "3", "E">>, <<"#", "D", "C", "2", "6", "2", "6">>>>,
      <<<<"#", "9", "A", "E", "6", "B", "4">>, <<"#", "0", "4", "7", "8", "5", "7">>>>,
      <<<<"#", "6", "8", "D", "3", "9", "1">>, <<"#", "0", "5", "9", "6", "6", "9">>>>,
      <<<<"#", "4", "8", "B", "B", "7", "8">>, <<"#", "0", "4", "7", "8", "5", "7">>>>,
      <<<<"#", "3", "8", "A", "1", "6", "9">>, <<"#", "0", "5", "9", "6", "6", "9">>>>,
      <<<<"#", "B", "2", "F", "5", "E", "A">>, <<"#", "0", "4", "7", "8", "5", "7">>>>,
      <<<<"#", "8", "8", "8">>, <<"#", "3", "7", "4", "1", "5", "1">>>>,
      <<<<"#", "8", "8", "8", "8", "8", "8">>, <<"#", "3", "7", "4", "1", "5", "1">>>>,
      <<<<"#", "F", "A", "F", "A", "F", "A">>, <<"transparent">>>>,
      <<<<"#", "f", "f", "f">>, <<"#", "1", "1", "1", "8", "2", "7">>>>,
      <<<<"#", "f", "f", "f", "f", "f", "f">>, <<"#", "1", "1", "1", "8", "2", "7">>>>,
      <<<<"#", "F", "F", "F">>, <<"#", "1", "1", "1", "8", "2", "7">>>>,
      <<<<"#", "F", "F", "F", "F", "F", "F">>, <<"#", "1", "1", "1", "8", "2", "7">>>>
    >>

\* fix_all_svgs.fix_svg_file: the table color_map, in source order
color_map ==
    <<
      <<<<"#", "6", "3", "B", "3", "E", "D">>, <<"#", "2", "5", "6", "3", "E", "B">>>>,
      <<<<"#", "9", "0", "C", "D", "F", "4">>, <<"#", "3", "B", "8", "2", "F", "6">>>>,
      <<<<"#", "4", "A", "9", "0", "E", "2">>, <<"#", "2", "5", "6", "3", "E", "B">>>>,
      <<<<"#", "C", "B", "D", "5", "E", "0">>, <<"#", "1", "F", "2", "9", "3", "7">>>>,
      <<<<"#", "A", "0", "A", "E", "C", "0">>, <<"#", "4", "B", "5", "5", "6", "3">>>>,
      <<<<"#", "6", "8", "D", "3", "9", "1">>, <<"#", "0", "5", "9", "6", "6", "9">>>>,
      <<<<"#", "4", "8", "B", "B", "7", "8">>, <<"#", "1", "0", "B", "9", "8", "1">>>>,
      <<<<"#", "3", "8", "A", "1", "6", "9">>, <<"#", "0", "5", "9", "6", "6", "9">>>>,
      <<<<"#", "9", "A", "E", "6", "B", "4">>, <<"#", "1", "0", "B", "9", "8", "1">>>>,
      <<<<"#", "B", "7", "9", "4", "F", "4">>, <<"#", "7", "C", "3", "A", "E", "D">>>>,
      <<<<"#", "D", "6", "B", "C", "F", "A">>, <<"#", "8", "B", "5", "C", "F", "6">>>>,
      <<<<"#", "9", "F", "7", "A", "E", "A">>, <<"#", "7", "C", "3", "A", "E", "D">>>>,
      <<<<"#", "E", "9", "D", "8", "F", "D">>, <<"#", "8", "B", "5", "C", "F", "6">>>>,
      <<<<"#", "F", "6", "A", "D", "5", "5">>, <<"#", "E", "A", "5", "8", "0", "C">>>>,
      <<<<"#", "F", "B", "D", "3", "8", "D">>, <<"#", "F", "9", "7", "3", "1", "6">>>>,
      <<<<"#", "E", "D", "8", "9", "3", "6">>, <<"#", "E", "A", "5", "8", "0", "C">>>>,
      <<<<"#", "F", "C", "8", "1", "8", "1">>, <<"#", "D", "C", "2", "6", "2", "6">>>>,
      <<<<"#", "F", "E", "B", "2", "B", "2">>, <<"#", "E", "F", "4", "4", "4", "4">>>>,
      <<<<"#", "E", "5", "3", "E", "3", "E">>, <<"#", "D", "C", "2", "6", "2", "6">>>>,
      <<<<"#", "4", "F", "D", "1", "C", "5">>, <<"#", "0", "8", "9", "1", "B", "2">>>>,
      <<<<"#", "8", "1", "E", "6", "D", "9">>, <<"#", "0", "6", "B", "6", "D", "4">>>>,
      <<<<"#", "3", "8", "D", "4", "B", "2">>, <<"#", "0", "8", "9", "1", "B", "2">>>>,
      <<<<"#", "B", "2", "F", "5", "E", "A">>, <<"#", "0", "6", "B", "6", "D", "4">>>>,
      <<<<"#", "4", "A", "5", "5", "6", "8">>, <<"#", "6", "B", "7", "2", "8", "0">>>>,
      <<<<"#", "7", "1", "8", "0", "9", "6">>, <<"#", "6", "B", "7", "2", "8", "0">>>>,
      <<<<"#", "8", "8", "8">>, <<"#", "6", "B", "7", "2", "8", "0">>>>
    >>

\* minimal_svg_fix.minimal_fix_svg: its content.replace calls on fill=, in source order
minimal_fill_replacements ==
    <<
      <<<<"#", "C", "B", "D", "5", "E", "0">>, <<"#", "1", "F", "2", "9", "3", "7">>>>,
      <<<<"#", "A", "0", "A", "E", "C", "0">>, <<"#", "3", "7", "4", "1", "5", "1">>>>,
      <<<<"#", "7", "1", "8", "0", "9", "6">>, <<"#", "3", "7", "4", "1", "5", "1">>>>,
      <<<<"#", "E", "2", "E", "8", "F", "0">>, <<"#", "1", "F", "2", "9", "3", "7">>>>,
      <<<<"#", "9", "0", "C", "D", "F", "4">>, <<"#", "1", "E", "4", "0", "A", "F">>>>,
      <<<<"#", "6", "3", "B", "3", "E", "D">>, <<"#", "2", "5", "6", "3", "E", "B">>>>,
      <<<<"#", "E", "9", "D", "8", "F", "D">>, <<"#", "7", "C", "3", "A", "E", "D">>>>,
      <<<<"#", "D", "6", "B", "C", "F", "A">>, <<"#", "9", "3", "3", "3", "E", "A">>>>,
      <<<<"#", "B", "7", "9", "4", "F", "4">>, <<"#", "9", "3", "3", "3", "E", "A">>>>,
      <<<<"#", "F", "B", "D", "3", "8", "D">>, <<"#", "E", "A", "5", "8", "0", "C">>>>,
      <<<<"#", "F", "6", "A", "D", "5", "5">>, <<"#", "D", "9", "7", "7", "0", "6">>>>,
      <<<<"#", "F", "E", "B", "2", "B", "2">>, <<"#", "D", "C", "2", "6", "2", "6">>>>,
      <<<<"#", "F", "C", "8", "1", "8", "1">>, <<"#", "E", "F", "4", "4", "4", "4">>>>,
      <<<<"#", "9", "A", "E", "6", "B", "4">>, <<"#", "1", "0", "B", "9", "8", "1">>>>,
      <<<<"#", "6", "8", "D", "3", "9", "1">>, <<"#", "0", "5", "9", "6", "6", "9">>>>,
      <<<<"#", "4", "8", "B", "B", "7", "8">>, <<"#", "0", "4", "7", "8", "5", "7">>>>,
      <<<<"#", "8", "1", "E", "6", "D", "9">>, <<"#", "0", "8", "9", "1", "B", "2">>>>,
      <<<<"#", "4", "F", "D", "1", "C", "5">>, <<"#", "0", "8", "9", "1", "B", "2">>>>,
      <<<<"#", "B", "2", "F", "5", "E", "A">>, <<"#", "0", "E", "7", "4", "9", "0">>>>,
      <<<<"#", "8", "8", "8">>, <<"#", "4", "B", "5", "5", "6", "3">>>>
    >>

\* safe_svg_improve.safe_improve_svg: the table text_color_improvements, in source order
text_color_improvements ==
    <<
      <<<<"#", "C", "B", "D", "5", "E", "0">>, <<"#", "3", "7", "4", "1", "5", "1">>>>,
      <<<<"#", "A", "0", "A", "E", "C", "0">>, <<"#", "4", "B", "5", "5", "6", "3">>>>,
      <<<<"#", "7", "1", "8", "0", "9", "6">>, <<"#", "3", "7", "4", "1", "5", "1">>>>,
      <<<<"#", "E", "9", "D", "8", "F", "D">>, <<"#", "6", "B", "2", "1", "A", "8">>>>,
      <<<<"#", "F", "B", "D", "3", "8", "D">>, <<"#", "9", "2", "4", "0", "0", "E">>>>,
      <<<<"#", "9", "0", "C", "D", "F", "4">>, <<"#", "1", "E", "4", "0", "A", "F">>>>,
      <<<<"#", "B", "2", "F", "5", "E", "A">>, <<"#", "0", "4", "7", "8", "5", "7">>>>,
      <<<<"#", "9", "A", "E", "6", "B", "4">>, <<"#", "0", "4", "7", "8", "5", "7">>>>
    >>

(***************************************************************************)
(* Helpers shared by the transformations.                                  *)
(***************************************************************************)
IsSpace(ch) == ch \in {" ", "\n", "\t"}

\* length of the longest prefix of v without white space
RECURSIVE WordLen(_)
WordLen(v) ==
    IF v = <<>> \/ IsSpace(v[1]) THEN 0 ELSE 1 + WordLen(Tail(v))

\* str.split(): the maximal runs of characters that are not white space
RECURSIVE SplitWs(_)
SplitWs(v) ==
    IF v = <<>> THEN <<>>
    ELSE IF IsSpace(v[1]) THEN SplitWs(Tail(v))
    ELSE <<SubSeq(v, 1, WordLen(v))>> \o SplitWs(SubSeq(v, WordLen(v) + 1, Len(v)))

\* re.sub(pat, rep, v, flags=re.IGNORECASE) for a literal pat inside a value
RECURSIVE ReplaceCI(_, _, _)
ReplaceCI(v, pat, rep) ==
    IF Len(v) < Len(pat) THEN v
    ELSE IF EqIgnoreCase(SubSeq(v, 1, Len(pat)), pat)
    THEN rep \o ReplaceCI(SubSeq(v, Len(pat) + 1, Len(v)), pat, rep)
    ELSE <<v[1]>> \o ReplaceCI(Tail(v), pat, rep)

\* re.sub of a literal run of tokens pat by the run rep, from token i on
RECURSIVE ReplaceSeq(_, _, _, _)
ReplaceSeq(c, i, pat, rep) ==
    LET o == FirstIdx(Len(c) - Len(pat) + 1, i,
                      LAMBDA x : SubSeq(c, x, x + Len(pat) - 1) = pat)
    IN  IF o = 0 THEN c
        ELSE ReplaceSeq(Splice(c, o, o + Len(pat) - 1, rep), o + Len(rep), pat, rep)

\* re.sub(r'name="old"', 'name="new"', c): every attribute whose name ends
\* with name and whose value is exactly old gets the value new
SubAttrValue(c, name, old, new) ==
    MapTokens(c, LAMBDA t : IF IsAttr(t, name) /\ t.val = old
                            THEN Attr(t.name, new) ELSE t)

\* re.sub(r'font-size="(\d+)"', f, c): f maps the digits to the new value
SubFontSize(c, f(_)) ==
    MapTokens(c, LAMBDA t : IF IsAttr(t, "font-size") /\ IsDigits(t.val)
                            THEN Attr(t.name, f(t.val)) ELSE t)

\* "<svg" in content
HasSvg(c) == \E i \in 1..Len(c) : IsOpen(c[i], "svg")

\* the span of the first match of <svg[^>]*> : <<i, j>>, or <<>> if none
SvgTagSpan(c) ==
    LET i == FirstFrom(c, 1, LAMBDA t : IsOpen(t, "svg"))
        j == IF i = 0 THEN 0 ELSE FirstFrom(c, i, HasGt)
    IN  IF j = 0 THEN <<>> ELSE <<i, j>>

\* viewBox = the first viewBox="[^"]+" of the text, else "0 0 W H" from the
\* first width="\d+" and the first height="\d+" of the text, else "0 0 800 600"
DeriveViewBox(c) ==
    LET vb == FirstFrom(c, 1, LAMBDA t : IsAttr(t, "viewBox") /\ Len(t.val) > 0)
        w == FirstFrom(c, 1, LAMBDA t : IsAttr(t, "width") /\ IsDigits(t.val))
        h == FirstFrom(c, 1, LAMBDA t : IsAttr(t, "height") /\ IsDigits(t.val))
    IN  IF vb # 0 THEN c[vb].val
        ELSE IF w # 0 /\ h # 0
        THEN <<"0", " ", "0", " ">> \o c[w].val \o <<" ">> \o c[h].val
        ELSE <<"0", " ", "0", " ", "8", "0", "0", " ", "6", "0", "0">>

XmlnsSvg == Attr("xmlns", <<"http://www.w3.org/2000/svg">>)

(***************************************************************************)
(* fix_svgs_properly.py                                                    *)
(***************************************************************************)
\* step 1: the opening <svg ...> tag is replaced by a responsive one
properly_fix_header(c) ==
    IF ~HasSvg(c) \/ SvgTagSpan(c) = <<>> THEN c
    ELSE Splice(c, SvgTagSpan(c)[1], SvgTagSpan(c)[2],
                <<Open("svg"), Sp, Attr("viewBox", DeriveViewBox(c)), Sp, XmlnsSvg, Sp,
                  Attr("style", <<"width: 100%; height: auto; max-width: 100%; display: block;">>),
                  Gt>>)

\* increase_font_size with the sizes under 14 left as they are
properly_increase_font_size_large_only(v) ==
    LET size == ParseInt(v)
    IN  IF size < 14 THEN v
        ELSE IF size < 16 THEN <<"1", "8">>
        ELSE IF size < 18 THEN <<"2", "0">>
        ELSE Str(size + 4)

\* step 2: the value increase_font_size gives for the digits v
properly_increase_font_size(v) ==
    LET size == ParseInt(v)
    IN  IF size < 14 THEN <<"1", "6">>
        ELSE IF size < 16 THEN <<"1", "8">>
        ELSE IF size < 18 THEN <<"2", "0">>
        ELSE Str(size + 4)

HasStyleColor(v) == \E i \in 1..Len(v) : v[i] \in {"fill:", "stroke:", "FILL:", "STROKE:"}

\* v contains the literal pat, compared under re.IGNORECASE
ContainsCI(v, pat) ==
    \E i \in 1..(Len(v) - Len(pat) + 1) : EqIgnoreCase(SubSeq(v, i, i + Len(pat) - 1), pat)

\* the match of entry n with the fill and stroke attributes compared without
\* re.IGNORECASE: the colour as the table writes it
properly_color_hits_as_written(t, n) ==
    LET old == color_replacements[n][1]
    IN  \/ (IsAttr(t, "fill") \/ IsAttr(t, "stroke")) /\ t.val = old
        \/ HasStyleColor(t.val)
           /\ (ContainsCI(t.val, <<"fill:">> \o old) \/ ContainsCI(t.val, <<"stroke:">> \o old))

\* entry n of color_replacements matches the token t
properly_color_hits(t, n) ==
    LET old == color_replacements[n][1]
    IN  \/ (IsAttr(t, "fill") \/ IsAttr(t, "stroke")) /\ EqIgnoreCase(t.val, old)
        \/ HasStyleColor(t.val)
           /\ (ContainsCI(t.val, <<"fill:">> \o old) \/ ContainsCI(t.val, <<"stroke:">> \o old))

\* step 3, one iteration of the loop over color_replacements, on one token
properly_replace_color(t, old, new) ==
    IF (IsAttr(t, "fill") \/ IsAttr(t, "stroke")) /\ EqIgnoreCase(t.val, old)
    THEN Attr(t.name, new)
    ELSE Attr(t.name, ReplaceCI(ReplaceCI(t.val, <<"fill:">> \o old, <<"fill:">> \o new),
                                <<"stroke:">> \o old, <<"stroke:">> \o new))

\* step 3 on one token: the iterations n, n+1, ... in table order (the
\* iterations that match nothing leave the token as it is)
RECURSIVE properly_replace_from(_, _)
properly_replace_from(t, n) ==
    LET hit == {m \in n..Len(color_replacements) : properly_color_hits(t, m)}
        m == CHOOSE x \in hit : \A y \in hit : x <= y
    IN  IF hit = {} THEN t
        ELSE properly_replace_from(
                 properly_replace_color(t, color_replacements[m][1], color_replacements[m][2]),
                 m + 1)

\* step 3: every substitution of the loop acts inside one attribute, so the
\* loop over the table is applied attribute by attribute
properly_replace_colors(c) ==
    MapTokens(c, LAMBDA t :
        IF IsAttr(t, "fill") \/ IsAttr(t, "stroke") \/ (t.k = "attr" /\ HasStyleColor(t.val))
        THEN properly_replace_from(t, 1) ELSE t)

\* step 4: re.sub(r'<rect[^>]*fill="v"[^>]*>', "", c) from token i on
RECURSIVE properly_remove_rects(_, _, _)
properly_remove_rects(c, i, v) ==
    LET o == FirstIdx(Len(c), i, LAMBDA x :
                 /\ IsOpen(c[x], "rect") /\ FirstFrom(c, x, HasGt) # 0
                 /\ \E m \in x..FirstFrom(c, x, HasGt) : IsAttr(c[m], "fill") /\ c[m].val = v)
    IN  IF o = 0 THEN c
        ELSE properly_remove_rects(Splice(c, o, FirstFrom(c, o, HasGt), <<>>), o, v)

properly_remove_backgrounds(c) ==
    LET c1 == properly_remove_rects(c, 1, <<"#", "F", "A", "F", "A", "F", "A">>)
        c2 == properly_remove_rects(c1, 1, <<"white">>)
        c3 == properly_remove_rects(c2, 1, <<"#", "F", "F", "F", "F", "F", "F">>)
    IN  properly_remove_rects(c3, 1, <<"#", "f", "f", "f", "f", "f", "f">>)

\* steps 5 to 8 without the substitutions of stroke-width
properly_fix_strokes_fonts_no_width(c) ==
    LET c6 == SubAttrValue(c, "font-weight", <<"bold">>, <<"7", "0", "0">>)
    IN  MapTokens(c6, LAMBDA t :
            IF IsAttr(t, "font-family")
            THEN Attr(t.name, <<"system-ui, -apple-system, BlinkMacSystemFont, Segoe UI, Roboto, sans-serif">>)
            ELSE t)

\* steps 5 to 8: stroke widths, font weights, font families, arrow marker
properly_fix_strokes_fonts(c) ==
    LET c5 == SubAttrValue(SubAttrValue(c, "stroke-width", <<"1">>, <<"2">>),
                           "stroke-width", <<"0", ".", "5">>, <<"2">>)
        c6 == SubAttrValue(c5, "font-weight", <<"bold">>, <<"7", "0", "0">>)
        c7 == MapTokens(c6, LAMBDA t :
                  IF IsAttr(t, "font-family")
                  THEN Attr(t.name, <<"system-ui, -apple-system, BlinkMacSystemFont, Segoe UI, Roboto, sans-serif">>)
                  ELSE t)
    IN  ReplaceSeq(c7, 1,
            <<Open("path"), Sp, Attr("d", <<"M0,0 L0,6 L9,3 z">>), Sp,
              Attr("fill", <<"#", "8", "8", "8">>), Sgt>>,
            <<Open("path"), Sp, Attr("d", <<"M0,0 L0,6 L9,3 z">>), Sp,
              Attr("fill", <<"#", "3", "7", "4", "1", "5", "1">>), Sgt>>)

\* the value matches (\d+)\s+(\d+)\s+(\d+)\s+(\d+) from quote to quote
IsUnsignedViewBox(v) ==
    /\ Len(v) > 0 /\ ~IsSpace(v[1]) /\ ~IsSpace(v[Len(v)])
    /\ Len(SplitWs(v)) = 4
    /\ \A i \in 1..4 : IsDigits(SplitWs(v)[i])

\* padding around the first viewBox of four integers, signed or not
properly_pad_viewbox_signed(c) ==
    LET signed(s) == IsDigits(s) \/ (Len(s) > 1 /\ s[1] = "-" /\ IsDigits(Tail(s)))
        num(s) == IF s[1] = "-" THEN 0 - ParseInt(Tail(s)) ELSE ParseInt(s)
        m == FirstFrom(c, 1, LAMBDA t : /\ IsAttr(t, "viewBox")
                                        /\ Len(SplitWs(t.val)) = 4
                                        /\ \A i \in 1..4 : signed(SplitWs(t.val)[i]))
        p == SplitWs(c[m].val)
    IN  IF m = 0 THEN c
        ELSE [c EXCEPT ![m] =
                 Attr(c[m].name,
                      Str(num(p[1]) - 20) \o <<" ">> \o Str(num(p[2]) - 20) \o <<" ">>
                      \o Str(num(p[3]) + 40) \o <<" ">> \o Str(num(p[4]) + 40))]

\* step 9: 20px of padding around the first all-unsigned viewBox; the value
\* is written into the first viewBox attribute of the text
properly_pad_viewbox(c) ==
    LET m == FirstFrom(c, 1, LAMBDA t : IsAttr(t, "viewBox") /\ IsUnsignedViewBox(t.val))
        first == FirstFrom(c, 1, LAMBDA t : IsAttr(t, "viewBox"))
        p == SplitWs(c[m].val)
    IN  IF m = 0 THEN c
        ELSE [c EXCEPT ![first] =
                 Attr(c[first].name,
                      Str(ParseInt(p[1]) - 20) \o <<" ">> \o Str(ParseInt(p[2]) - 20) \o <<" ">>
                      \o Str(ParseInt(p[3]) + 40) \o <<" ">> \o Str(ParseInt(p[4]) + 40))]

\* fix_svg_content(content, filename)
properly_fix_svg_content(c) ==
    LET c1 == properly_fix_header(c)
        c2 == SubFontSize(c1, properly_increase_font_size)
        c3 == properly_replace_colors(c2)
        c4 == properly_remove_backgrounds(c3)
        c8 == properly_fix_strokes_fonts(c4)
    IN  Canon(properly_pad_viewbox(c8))

\* the tokens of content.split(">")[0]: those before the first ">"
FirstSegment(c) ==
    IF FirstFrom(c, 1, HasGt) = 0 THEN c
    ELSE SubSeq(c, 1, FirstFrom(c, 1, HasGt) - 1)

\* "style=" in content.split(">")[0]
StyleInFirstSegment(c) ==
    \E i \in 1..Len(FirstSegment(c)) : IsAttr(FirstSegment(c)[i], "style")

ResponsiveStyle == Attr("style", <<"max-width: 100%; height: auto;">>)

\* re.sub(r"(<svg[^>]*)(>)", r'\1 style="..."\2', c, count=1): the style
\* attribute goes right before the ">" that ends the first <svg tag; when
\* that ">" belongs to "/>" the attribute lands between "/" and ">"
AddResponsiveStyle(c) ==
    LET span == SvgTagSpan(c)
        j == span[2]
    IN  IF span = <<>> THEN c
        ELSE IF c[j].k = "sgt" THEN Splice(c, j, j, <<Slash, Sp, ResponsiveStyle, Gt>>)
        ELSE Splice(c, j, j, <<Sp, ResponsiveStyle, c[j]>>)

(***************************************************************************)
(* minimal_svg_fix.py                                                      *)
(***************************************************************************)
\* the value fix_font_size gives for the digits v
minimal_fix_font_size(v) ==
    LET size == ParseInt(v)
    IN  IF size <= 11 THEN <<"1", "6">>
        ELSE IF size = 12 THEN <<"1", "8">>
        ELSE IF size <= 14 THEN <<"2", "0">>
        ELSE Str(size + 4)

\* a content.replace call that replaces nothing
minimal_replace_fill_nothing(t, old, new) == t

\* content.replace('fill="old"', 'fill="new"') on one token
minimal_replace_fill(t, old, new) ==
    IF IsAttr(t, "fill") /\ t.val = old THEN Attr(t.name, new) ELSE t

\* the content.replace calls n, n+1, ... in source order, on one token
RECURSIVE minimal_replace_from(_, _)
minimal_replace_from(t, n) ==
    LET hit == {m \in n..Len(minimal_fill_replacements) :
                   IsAttr(t, "fill") /\ t.val = minimal_fill_replacements[m][1]}
        m == CHOOSE x \in hit : \A y \in hit : x <= y
    IN  IF hit = {} THEN t
        ELSE minimal_replace_from(
                 minimal_replace_fill(t, minimal_fill_replacements[m][1],
                                      minimal_fill_replacements[m][2]),
                 m + 1)

minimal_replace_colors(c) ==
    MapTokens(c, LAMBDA t : IF IsAttr(t, "fill") THEN minimal_replace_from(t, 1) ELSE t)

\* step 3: a style attribute is added when the text before the first ">"
\* has none
minimal_make_responsive(c) ==
    IF HasSvg(c) /\ ~StyleInFirstSegment(c) THEN AddResponsiveStyle(c) ELSE c

\* the text minimal_fix_svg writes for the text c it read
minimal_transform(c) ==
    Canon(minimal_make_responsive(minimal_replace_colors(SubFontSize(c, minimal_fix_font_size))))

(***************************************************************************)
(* safe_svg_improve.py                                                     *)
(***************************************************************************)
\* step 1
safe_make_responsive(c) ==
    IF ~StyleInFirstSegment(c) THEN AddResponsiveStyle(c) ELSE c

\* step 2: the value increase_font_size gives for the digits v
safe_increase_font_size(v) ==
    LET size == ParseInt(v)
    IN  IF size < 12 THEN <<"1", "4">>
        ELSE IF size = 12 \/ size = 13 THEN <<"1", "4">>
        ELSE v

\* the text  <text  occurs at the token (also in <textPath)
IsTextOpen(t) == t.k = "open" /\ t.name \in {"text", "textPath"}

\* a match of <rect[^>]*/> starts at token x
IsSelfClosingRect(c, x) ==
    IsOpen(c[x], "rect") /\ FirstFrom(c, x, HasGt) # 0 /\ c[FirstFrom(c, x, HasGt)].k = "sgt"

\* the last token of the tag opened at i: the one before the next ">"
TagEnd(c, i) ==
    IF FirstFrom(c, i, HasGt) = 0 THEN Len(c) ELSE FirstFrom(c, i, HasGt) - 1

\* step 3, one iteration: re.sub('(<text[^>]*fill=")old(")', new) replaces, in
\* every <text tag, the last fill attribute with the value old
safe_replace_color(c, old, new) ==
    [i \in 1..Len(c) |->
        IF /\ IsAttr(c[i], "fill") /\ EqIgnoreCase(c[i].val, old)
           /\ \E o \in 1..(i - 1) :
                 /\ IsTextOpen(c[o])
                 /\ i <= TagEnd(c, o)
                 /\ \A m \in (i + 1)..TagEnd(c, o) :
                        ~(IsAttr(c[m], "fill") /\ EqIgnoreCase(c[m].val, old))
                 \* the match starts at the leftmost <text it can start at
                 /\ \A p \in 1..(o - 1) : ~(IsTextOpen(c[p]) /\ i <= TagEnd(c, p))
        THEN Attr(c[i].name, new)
        ELSE c[i]]

RECURSIVE safe_replace_colors(_, _)
safe_replace_colors(c, n) ==
    IF n > Len(text_color_improvements) THEN c
    ELSE safe_replace_colors(
             safe_replace_color(c, text_color_improvements[n][1], text_color_improvements[n][2]),
             n + 1)

\* step 5: re.sub(r"<rect[^>]*/>", add_rounded_corners, c) from token i on
RECURSIVE safe_add_rounded_corners(_, _)
safe_add_rounded_corners(c, i) ==
    LET o == FirstIdx(Len(c), i, LAMBDA x :
                 /\ IsSelfClosingRect(c, x)
                 /\ ~\E m \in x..FirstFrom(c, x, HasGt) : IsAttr(c[m], "rx")
                 /\ \E m \in x..FirstFrom(c, x, HasGt) :
                        IsAttr(c[m], "fill") /\ c[m].val = <<"none">>)
        j == FirstFrom(c, o, HasGt)
    IN  IF o = 0 THEN c
        ELSE safe_add_rounded_corners(Splice(c, j, j, <<Sp, Attr("rx", <<"4">>), Sgt>>), j + 3)

\* steps 4 and 6 to 8
safe_fix_strokes_fonts(c) ==
    LET c4 == SubAttrValue(SubAttrValue(c, "stroke-width", <<"1">>, <<"2">>),
                           "stroke-width", <<"0", ".", "5">>, <<"2">>)
        c5 == safe_add_rounded_corners(c4, 1)
        c6 == SubAttrValue(c5, "fill", <<"#", "8", "8", "8">>, <<"#", "3", "7", "4", "1", "5", "1">>)
        c7 == SubAttrValue(c6, "font-family", <<"Arial, sans-serif">>,
                           <<"-apple-system, BlinkMacSystemFont, 'Segoe UI', Roboto, Arial, sans-serif">>)
    IN  SubAttrValue(c7, "font-weight", <<"bold">>, <<"6", "0", "0">>)

\* the text safe_improve_svg computes from the text c it read
safe_transform(c) ==
    Canon(safe_fix_strokes_fonts(
        safe_replace_colors(SubFontSize(safe_make_responsive(c), safe_increase_font_size), 1)))

(***************************************************************************)
(* The headers the scripts put in front of a file.                         *)
(***************************************************************************)
\* svg_header: the header fix_svg_file builds around viewbox
fixall_svg_header(viewbox) ==
    <<
      Xml, Ws(<<"\n">>), Open("svg"), Sp, Attr("viewBox", viewbox), Sp,
      Attr("xmlns", <<"http://www.w3.org/2000/svg">>), Sp,
      Attr("style", <<"max-width: 100%; height: auto;">>), Gt, Ws(<<"\n", " ", " ">>),
      Open("defs"), Gt, Ws(<<"\n", " ", " ", " ", " ">>), Cmt("Arrow markers"),
      Ws(<<"\n", " ", " ", " ", " ">>), Open("marker"), Sp, Attr("id", <<"arrow">>), Sp,
      Attr("markerWidth", <<"1", "0">>), Sp, Attr("markerHeight", <<"1", "0">>), Sp,
      Attr("refX", <<"9">>), Sp, Attr("refY", <<"3">>), Sp, Attr("orient", <<"auto">>), Sp,
      Attr("markerUnits", <<"strokeWidth">>), Gt, Ws(<<"\n", " ", " ", " ", " ", " ", " ">>),
      Open("path"), Sp, Attr("d", <<"M0,0 L0,6 L9,3 z">>), Sp,
      Attr("fill", <<"#", "2", "5", "6", "3", "E", "B">>), Sgt, Ws(<<"\n", " ", " ", " ", " ">>),
      Close("marker"), Ws(<<"\n", "\n", " ", " ", " ", " ">>), Cmt("Drop shadow for depth"),
      Ws(<<"\n", " ", " ", " ", " ">>), Open("filter"), Sp, Attr("id", <<"shadow">>), Sp,
      Attr("x", <<"-", "2", "0", "%">>), Sp, Attr("y", <<"-", "2", "0", "%">>), Sp,
      Attr("width", <<"1", "4", "0", "%">>), Sp, Attr("height", <<"1", "4", "0", "%">>), Gt,
      Ws(<<"\n", " ", " ", " ", " ", " ", " ">>), Open("feGaussianBlur"), Sp,
      Attr("in", <<"SourceAlpha">>), Sp, Attr("stdDeviation", <<"2">>), Sgt,
      Ws(<<"\n", " ", " ", " ", " ", " ", " ">>), Open("feOffset"), Sp, Attr("dx", <<"1">>), Sp,
      Attr("dy", <<"1">>), Sp, Attr("result", <<"offsetblur">>), Sgt,
      Ws(<<"\n", " ", " ", " ", " ", " ", " ">>), Open("feComponentTransfer"), Gt,
      Ws(<<"\n", " ", " ", " ", " ", " ", " ", " ", " ">>), Open("feFuncA"), Sp,
      Attr("type", <<"linear">>), Sp, Attr("slope", <<"0", ".", "2">>), Sgt,
      Ws(<<"\n", " ", " ", " ", " ", " ", " ">>), Close("feComponentTransfer"),
      Ws(<<"\n", " ", " ", " ", " ", " ", " ">>), Open("feMerge"), Gt,
      Ws(<<"\n", " ", " ", " ", " ", " ", " ", " ", " ">>), Open("feMergeNode"), Sgt,
      Ws(<<"\n", " ", " ", " ", " ", " ", " ", " ", " ">>), Open("feMergeNode"), Sp,
      Attr("in", <<"SourceGraphic">>), Sgt, Ws(<<"\n", " ", " ", " ", " ", " ", " ">>),
      Close("feMerge"), Ws(<<"\n", " ", " ", " ", " ">>), Close("filter"), Ws(<<"\n", " ", " ">>),
      Close("defs"), Ws(<<"\n">>)
    >>

\* new_header: the header create_improved_svg builds; new_width and
\* new_height are the digits of the padded size
beautify_new_header(new_width, new_height) ==
    <<
      Open("svg"), Sp,
      Attr("viewBox", <<"0", " ", "0", " ">> \o new_width \o <<" ">> \o new_height),
      Ws(<<"\n", " ", " ", " ", " ", " ">>), Attr("xmlns", <<"http://www.w3.org/2000/svg">>),
      Ws(<<"\n", " ", " ", " ", " ", " ">>),
      Attr("style", <<"max-width: 100%; height: auto; min-height: 400px;">>), Gt,
      Ws(<<"\n", "\n", " ", " ">>), Cmt("Beautiful gradient definitions for depth"),
      Ws(<<"\n", " ", " ">>), Open("defs"), Gt, Ws(<<"\n", " ", " ", " ", " ">>),
      Open("linearGradient"), Sp, Attr("id", <<"blueGradient">>), Sp, Attr("x1", <<"0", "%">>), Sp,
      Attr("y1", <<"0", "%">>), Sp, Attr("x2", <<"0", "%">>), Sp,
      Attr("y2", <<"1", "0", "0", "%">>), Gt, Ws(<<"\n", " ", " ", " ", " ", " ", " ">>),
      Open("stop"), Sp, Attr("offset", <<"0", "%">>), Sp,
      Attr("style", <<"stop-color:#2563EB;stop-opacity:0.9">>), Sp, Sgt,
      Ws(<<"\n", " ", " ", " ", " ", " ", " ">>), Open("stop"), Sp,
      Attr("offset", <<"1", "0", "0", "%">>), Sp,
      Attr("style", <<"stop-color:#2563EB;stop-opacity:1">>), Sp, Sgt,
      Ws(<<"\n", " ", " ", " ", " ">>), Close("linearGradient"),
      Ws(<<"\n", "\n", " ", " ", " ", " ">>), Open("linearGradient"), Sp,
      Attr("id", <<"greenGradient">>), Sp, Attr("x1", <<"0", "%">>), Sp, Attr("y1", <<"0", "%">>),
      Sp, Attr("x2", <<"0", "%">>), Sp, Attr("y2", <<"1", "0", "0", "%">>), Gt,
      Ws(<<"\n", " ", " ", " ", " ", " ", " ">>), Open("stop"), Sp, Attr("offset", <<"0", "%">>),
      Sp, Attr("style", <<"stop-color:#059669;stop-opacity:0.9">>), Sp, Sgt,
      Ws(<<"\n", " ", " ", " ", " ", " ", " ">>), Open("stop"), Sp,
      Attr("offset", <<"1", "0", "0", "%">>), Sp,
      Attr("style", <<"stop-color:#059669;stop-opacity:1">>), Sp, Sgt,
      Ws(<<"\n", " ", " ", " ", " ">>), Close("linearGradient"),
      Ws(<<"\n", "\n", " ", " ", " ", " ">>), Open("linearGradient"), Sp,
      Attr("id", <<"purpleGradient">>), Sp, Attr("x1", <<"0", "%">>), Sp, Attr("y1", <<"0", "%">>),
      Sp, Attr("x2", <<"0", "%">>), Sp, Attr("y2", <<"1", "0", "0", "%">>), Gt,
      Ws(<<"\n", " ", " ", " ", " ", " ", " ">>), Open("stop"), Sp, Attr("offset", <<"0", "%">>),
      Sp, Attr("style", <<"stop-color:#7C3AED;stop-opacity:0.9">>), Sp, Sgt,
      Ws(<<"\n", " ", " ", " ", " ", " ", " ">>), Open("stop"), Sp,
      Attr("offset", <<"1", "0", "0", "%">>), Sp,
      Attr("style", <<"stop-color:#7C3AED;stop-opacity:1">>), Sp, Sgt,
      Ws(<<"\n", " ", " ", " ", " ">>), Close("linearGradient"),
      Ws(<<"\n", "\n", " ", " ", " ", " ">>), Open("linearGradient"), Sp,
      Attr("id", <<"orangeGradient">>), Sp, Attr("x1", <<"0", "%">>), Sp, Attr("y1", <<"0", "%">>),
      Sp, Attr("x2", <<"0", "%">>), Sp, Attr("y2", <<"1", "0", "0", "%">>), Gt,
      Ws(<<"\n", " ", " ", " ", " ", " ", " ">>), Open("stop"), Sp, Attr("offset", <<"0", "%">>),
      Sp, Attr("style", <<"stop-color:#EA580C;stop-opacity:0.9">>), Sp, Sgt,
      Ws(<<"\n", " ", " ", " ", " ", " ", " ">>), Open("stop"), Sp,
      Attr("offset", <<"1", "0", "0", "%">>), Sp,
      Attr("style", <<"stop-color:#EA580C;stop-opacity:1">>), Sp, Sgt,
      Ws(<<"\n", " ", " ", " ", " ">>), Close("linearGradient"),
      Ws(<<"\n", "\n", " ", " ", " ", " ">>), Cmt("Enhanced arrow markers"),
      Ws(<<"\n", " ", " ", " ", " ">>), Open("marker"), Sp, Attr("id", <<"arrow">>), Sp,
      Attr("markerWidth", <<"1", "2">>), Sp, Attr("markerHeight", <<"1", "2">>), Sp,
      Attr("refX", <<"1", "1">>), Sp, Attr("refY", <<"6">>),
      Ws(<<"\n", " ", " ", " ", " ", " ", " ", " ", " ", " ", " ", " ", " ">>),
      Attr("orient", <<"auto">>), Sp, Attr("markerUnits", <<"strokeWidth">>), Gt,
      Ws(<<"\n", " ", " ", " ", " ", " ", " ">>), Open("path"), Sp,
      Attr("d", <<"M0,0 L0,12 L12,6 z">>), Sp, Attr("fill", <<"#", "2", "5", "6", "3", "E", "B">>),
      Sp, Sgt, Ws(<<"\n", " ", " ", " ", " ">>), Close("marker"),
      Ws(<<"\n", "\n", " ", " ", " ", " ">>), Open("marker"), Sp, Attr("id", <<"arrowGreen">>), Sp,
      Attr("markerWidth", <<"1", "2">>), Sp, Attr("markerHeight", <<"1", "2">>), Sp,
      Attr("refX", <<"1", "1">>), Sp, Attr("refY", <<"6">>),
      Ws(<<"\n", " ", " ", " ", " ", " ", " ", " ", " ", " ", " ", " ", " ">>),
      Attr("orient", <<"auto">>), Sp, Attr("markerUnits", <<"strokeWidth">>), Gt,
      Ws(<<"\n", " ", " ", " ", " ", " ", " ">>), Open("path"), Sp,
      Attr("d", <<"M0,0 L0,12 L12,6 z">>), Sp, Attr("fill", <<"#", "0", "5", "9", "6", "6", "9">>),
      Sp, Sgt, Ws(<<"\n", " ", " ", " ", " ">>), Close("marker"),
      Ws(<<"\n", "\n", " ", " ", " ", " ">>), Cmt("Drop shadow filter for depth"),
      Ws(<<"\n", " ", " ", " ", " ">>), Open("filter"), Sp, Attr("id", <<"shadow">>), Sp,
      Attr("x", <<"-", "5", "0", "%">>), Sp, Attr("y", <<"-", "5", "0", "%">>), Sp,
      Attr("width", <<"2", "0", "0", "%">>), Sp, Attr("height", <<"2", "0", "0", "%">>), Gt,
      Ws(<<"\n", " ", " ", " ", " ", " ", " ">>), Open("feGaussianBlur"), Sp,
      Attr("in", <<"SourceAlpha">>), Sp, Attr("stdDeviation", <<"3">>), Sgt,
      Ws(<<"\n", " ", " ", " ", " ", " ", " ">>), Open("feOffset"), Sp, Attr("dx", <<"2">>), Sp,
      Attr("dy", <<"2">>), Sp, Attr("result", <<"offsetblur">>), Sgt,
      Ws(<<"\n", " ", " ", " ", " ", " ", " ">>), Open("feComponentTransfer"), Gt,
      Ws(<<"\n", " ", " ", " ", " ", " ", " ", " ", " ">>), Open("feFuncA"), Sp,
      Attr("type", <<"linear">>), Sp, Attr("slope", <<"0", ".", "2">>), Sgt,
      Ws(<<"\n", " ", " ", " ", " ", " ", " ">>), Close("feComponentTransfer"),
      Ws(<<"\n", " ", " ", " ", " ", " ", " ">>), Open("feMerge"), Gt,
      Ws(<<"\n", " ", " ", " ", " ", " ", " ", " ", " ">>), Open("feMergeNode"), Sgt,
      Ws(<<"\n", " ", " ", " ", " ", " ", " ", " ", " ">>), Open("feMergeNode"), Sp,
      Attr("in", <<"SourceGraphic">>), Sgt, Ws(<<"\n", " ", " ", " ", " ", " ", " ">>),
      Close("feMerge"), Ws(<<"\n", " ", " ", " ", " ">>), Close("filter"),
      Ws(<<"\n", "\n", " ", " ", " ", " ">>), Cmt("Soft shadow for text"),
      Ws(<<"\n", " ", " ", " ", " ">>), Open("filter"), Sp, Attr("id", <<"textShadow">>), Sp,
      Attr("x", <<"-", "5", "0", "%">>), Sp, Attr("y", <<"-", "5", "0", "%">>), Sp,
      Attr("width", <<"2", "0", "0", "%">>), Sp, Attr("height", <<"2", "0", "0", "%">>), Gt,
      Ws(<<"\n", " ", " ", " ", " ", " ", " ">>), Open("feGaussianBlur"), Sp,
      Attr("in", <<"SourceAlpha">>), Sp, Attr("stdDeviation", <<"1">>), Sgt,
      Ws(<<"\n", " ", " ", " ", " ", " ", " ">>), Open("feOffset"), Sp, Attr("dx", <<"1">>), Sp,
      Attr("dy", <<"1">>), Sp, Attr("result", <<"offsetblur">>), Sgt,
      Ws(<<"\n", " ", " ", " ", " ", " ", " ">>), Open("feComponentTransfer"), Gt,
      Ws(<<"\n", " ", " ", " ", " ", " ", " ", " ", " ">>), Open("feFuncA"), Sp,
      Attr("type", <<"linear">>), Sp, Attr("slope", <<"0", ".", "1", "5">>), Sgt,
      Ws(<<"\n", " ", " ", " ", " ", " ", " ">>), Close("feComponentTransfer"),
      Ws(<<"\n", " ", " ", " ", " ", " ", " ">>), Open("feMerge"), Gt,
      Ws(<<"\n", " ", " ", " ", " ", " ", " ", " ", " ">>), Open("feMergeNode"), Sgt,
      Ws(<<"\n", " ", " ", " ", " ", " ", " ", " ", " ">>), Open("feMergeNode"), Sp,
      Attr("in", <<"SourceGraphic">>), Sgt, Ws(<<"\n", " ", " ", " ", " ", " ", " ">>),
      Close("feMerge"), Ws(<<"\n", " ", " ", " ", " ">>), Close("filter"), Ws(<<"\n", " ", " ">>),
      Close("defs"), Ws(<<"\n", "\n", " ", " ">>), Cmt("White background with subtle border"),
      Ws(<<"\n", " ", " ">>), Open("rect"), Sp, Attr("x", <<"0">>), Sp, Attr("y", <<"0">>), Sp,
      Attr("width", new_width), Sp, Attr("height", new_height),
      Ws(<<"\n", " ", " ", " ", " ", " ", " ", " ", " ">>),
      Attr("fill", <<"#", "F", "9", "F", "A", "F", "B">>), Sp,
      Attr("stroke", <<"#", "9", "C", "A", "3", "A", "F">>),
      Ws(<<"\n", " ", " ", " ", " ", " ", " ", " ", " ">>), Attr("stroke-width", <<"1">>), Sp,
      Attr("rx", <<"8">>), Sp, Sgt, Ws(<<"\n", "\n", " ", " ">>),
      Cmt("Content container with proper margins"), Ws(<<"\n", " ", " ">>), Open("g"), Sp,
      Attr("transform", <<"translate(40, 40)">>), Gt
    >>

\* c without the tokens of kind k and name n
DropTokens(c, k, n) == SelectSeq(c, LAMBDA t : ~(t.k = k /\ t.name = n))

\* re.sub(r"<svg[^>]*>", "", c): every <svg tag is removed, from token i on
RECURSIVE RemoveSvgTags(_, _)
RemoveSvgTags(c, i) ==
    LET o == FirstIdx(Len(c), i, LAMBDA x : IsOpen(c[x], "svg") /\ FirstFrom(c, x, HasGt) # 0)
    IN  IF o = 0 THEN c
        ELSE RemoveSvgTags(Splice(c, o, FirstFrom(c, o, HasGt), <<>>), o)

(***************************************************************************)
(* fix_all_svgs.py                                                         *)
(***************************************************************************)
\* re.sub(r'style="[^"]*"[^>]*style="[^"]*"', "", c): inside one tag, the
\* text from its first style attribute to its last one is removed
LaterStyles(c, x) == {m \in (x + 1)..TagEnd(c, x) : IsAttr(c[m], "style")}

RECURSIVE fixall_remove_double_styles(_, _)
fixall_remove_double_styles(c, i) ==
    LET o == FirstIdx(Len(c), i, LAMBDA x : IsAttr(c[x], "style") /\ LaterStyles(c, x) # {})
        j == CHOOSE x \in LaterStyles(c, o) : \A y \in LaterStyles(c, o) : y <= x
    IN  IF o = 0 THEN c
        ELSE fixall_remove_double_styles(Splice(c, o, j, <<>>), o)

\* if not content.strip().startswith("<?xml"): an XML declaration is put in front
fixall_ensure_xml(c) ==
    LET first == FirstFrom(c, 1, LAMBDA t : t.k # "ws")
    IN  IF first # 0 /\ c[first].k = "xml" THEN c ELSE <<Xml, Nl>> \o c

\* re.sub(r"<defs>.*?</defs>", "", c, flags=re.DOTALL), from token i on
DefsEnd(c, x) == FirstFrom(c, x, LAMBDA t : t.k = "close" /\ t.name = "defs")

RECURSIVE fixall_remove_defs(_, _)
fixall_remove_defs(c, i) ==
    LET o == FirstIdx(Len(c) - 1, i, LAMBDA x :
                 IsOpen(c[x], "defs") /\ c[x + 1].k = "gt" /\ DefsEnd(c, x) # 0)
    IN  IF o = 0 THEN c
        ELSE fixall_remove_defs(Splice(c, o, DefsEnd(c, o), <<>>), o)

\* main_content: the text without its XML declarations, <svg tags, </svg>
\* tags and <defs> sections
fixall_main_content(c) ==
    LET m1 == DropTokens(c, "xml", "")
        m2 == RemoveSvgTags(m1, 1)
        m3 == DropTokens(m2, "close", "svg")
    IN  fixall_remove_defs(m3, 1)

\* the text fix_font_size gives for the digits v
fixall_fix_font_size(v) ==
    LET size == ParseInt(v)
    IN  IF size < 12 THEN <<"1", "4">>
        ELSE IF size < 14 THEN <<"1", "4">>
        ELSE IF size > 24 THEN <<"2", "4">>
        ELSE v

\* the four str.replace calls of one iteration over color_map match the
\* token: the value is the key as written, or the key in lower case
fixall_color_hits(t, n) ==
    /\ IsAttr(t, "fill") \/ IsAttr(t, "stroke")
    /\ t.val = color_map[n][1] \/ t.val = Lower(color_map[n][1])

\* the iterations n, n+1, ... of the loop over color_map, on one token
RECURSIVE fixall_replace_from(_, _)
fixall_replace_from(t, n) ==
    LET hit == {m \in n..Len(color_map) : fixall_color_hits(t, m)}
        m == CHOOSE x \in hit : \A y \in hit : x <= y
    IN  IF hit = {} THEN t
        ELSE fixall_replace_from(Attr(t.name, color_map[m][2]), m + 1)

fixall_replace_colors(c) ==
    MapTokens(c, LAMBDA t :
        IF IsAttr(t, "fill") \/ IsAttr(t, "stroke") THEN fixall_replace_from(t, 1) ELSE t)

\* re.sub(r"<rect[^>]*/>", add_rounded_corners, c) from token i on:
\* rect[:-1] + ' rx="6"/>' keeps the "/" of the old "/>"
RECURSIVE fixall_add_rounded_corners(_, _)
fixall_add_rounded_corners(c, i) ==
    LET o == FirstIdx(Len(c), i, LAMBDA x :
                 /\ IsSelfClosingRect(c, x)
                 /\ ~\E m \in x..FirstFrom(c, x, HasGt) : IsAttr(c[m], "rx"))
        j == FirstFrom(c, o, HasGt)
    IN  IF o = 0 THEN c
        ELSE fixall_add_rounded_corners(
                 Splice(c, j, j, <<Slash, Sp, Attr("rx", <<"6">>), Sgt>>), j + 4)

\* the text fix_svg_file writes for the text c it read
fixall_transform(c) ==
    LET c0 == fixall_ensure_xml(fixall_remove_double_styles(c, 1))
        m4 == fixall_main_content(c0)
        m5 == fixall_replace_colors(SubFontSize(m4, fixall_fix_font_size))
        m6 == MapTokens(m5, LAMBDA t :
                  IF IsAttr(t, "font-family")
                  THEN Attr(t.name, <<"system-ui, -apple-system, sans-serif">>)
                  ELSE t)
        m7 == SubAttrValue(m6, "stroke-width", <<"1">>, <<"2">>)
    IN  Canon(fixall_svg_header(DeriveViewBox(c0)) \o fixall_add_rounded_corners(m7, 1)
                  \o <<Nl, Close("svg")>>)

(***************************************************************************)
(* beautify_all_svgs.py                                                    *)
(***************************************************************************)
\* LAYOUT['margin']
LayoutMargin == 40

\* LAYOUT['corner_radius']
LayoutCornerRadius == 8

\* int(s) succeeds: an optional sign and decimal digits
IsIntText(s) ==
    \/ IsDigits(s)
    \/ Len(s) > 1 /\ s[1] \in {"-", "+"} /\ IsDigits(Tail(s))

\* int(s) for such s
IntOf(s) ==
    IF s[1] = "-" THEN 0 - ParseInt(Tail(s))
    ELSE IF s[1] = "+" THEN ParseInt(Tail(s))
    ELSE ParseInt(s)

\* v contains the literal pat
Contains(v, pat) ==
    \E i \in 1..(Len(v) - Len(pat) + 1) : SubSeq(v, i, i + Len(pat) - 1) = pat

\* create_improved_svg, the size it extracts: <<width, height>>, or <<>> when
\* int(vb_parts[2]) or int(vb_parts[3]) raises (IndexError or ValueError)
beautify_size(c) ==
    LET vb == FirstFrom(c, 1, LAMBDA t : IsAttr(t, "viewBox") /\ Len(t.val) > 0)
        w == FirstFrom(c, 1, LAMBDA t : IsAttr(t, "width") /\ IsDigits(t.val))
        h == FirstFrom(c, 1, LAMBDA t : IsAttr(t, "height") /\ IsDigits(t.val))
        vb_parts == SplitWs(c[vb].val)
    IN  IF vb # 0
        THEN IF Len(vb_parts) >= 4 /\ IsIntText(vb_parts[3]) /\ IsIntText(vb_parts[4])
             THEN <<IntOf(vb_parts[3]), IntOf(vb_parts[4])>>
             ELSE <<>>
        ELSE IF w # 0 /\ h # 0 THEN <<ParseInt(c[w].val), ParseInt(c[h].val)>>
        ELSE <<800, 600>>

\* update_font_size and update_font_size_style: the FONT_SIZES entry for the digits v
beautify_update_font_size(v) ==
    LET size == ParseInt(v)
    IN  IF size >= 20 THEN <<"2", "4">>
        ELSE IF size >= 16 THEN <<"1", "8">>
        ELSE IF size >= 14 THEN <<"1", "6">>
        ELSE IF size >= 12 THEN <<"1", "4">>
        ELSE <<"1", "2">>

\* number of white space characters of v from position i on
RECURSIVE SpaceRun(_, _)
SpaceRun(v, i) == IF i <= Len(v) /\ IsSpace(v[i]) THEN 1 + SpaceRun(v, i + 1) ELSE 0

\* number of digits of v from position i on
RECURSIVE DigitRun(_, _)
DigitRun(v, i) == IF i <= Len(v) /\ IsDigit(v[i]) THEN 1 + DigitRun(v, i + 1) ELSE 0

\* re.sub(r'font-size:\s*(\d+)(?:px)?', ...) inside one attribute value, from
\* position i on
RECURSIVE beautify_sub_style_font_size(_, _)
beautify_sub_style_font_size(v, i) ==
    LET o == FirstIdx(Len(v), i, LAMBDA x :
                 v[x] = "font-size:" /\ DigitRun(v, x + 1 + SpaceRun(v, x + 1)) > 0)
        d == o + 1 + SpaceRun(v, o + 1)
        n == DigitRun(v, d)
        e == IF d + n <= Len(v) /\ v[d + n] = "px" THEN d + n ELSE d + n - 1
        new == beautify_update_font_size(SubSeq(v, d, d + n - 1))
    IN  IF o = 0 THEN v
        ELSE beautify_sub_style_font_size(
                 SubSeq(v, 1, o) \o new \o SubSeq(v, e + 1, Len(v)), o + 1 + Len(new))

IsHexChar(ch) == IsDigit(ch) \/ \E i \in 1..26 : UpperLetters[i] = ch \/ LowerLetters[i] = ch

\* the value matches #[A-Fa-f0-9]{6}
IsHex6(v) == Len(v) = 7 /\ v[1] = "#" /\ \A i \in 2..7 : IsHexChar(v[i])

\* update_text_color: the new fill for the matched value v
beautify_update_text_color(v) ==
    LET color == Lower(v)
        has(s) == Contains(color, s)
    IN  IF \/ has(<<"f", "f", "f">>) \/ has(<<"f", "e", "f">>) \/ has(<<"e", "f", "e">>)
           \/ has(<<"f", "e", "e">>) \/ has(<<"e", "e", "e">>) \/ has(<<"d", "d", "d">>)
           \/ has(<<"c", "c", "c">>)
        THEN <<"#", "1", "F", "2", "9", "3", "7">>
        ELSE IF \/ has(<<"0", "0", "0">>) \/ has(<<"1", "1", "1">>) \/ has(<<"2", "2", "2">>)
                \/ has(<<"3", "3", "3">>) \/ has(<<"4", "4", "4">>)
        THEN <<"#", "1", "F", "2", "9", "3", "7">>
        ELSE <<"#", "4", "B", "5", "5", "6", "3">>

\* update_stroke_color: the new stroke for the matched value v (the colour
\* names blue, green, ... cannot occur in a hex value)
beautify_update_stroke_color(v) ==
    LET color == Lower(v)
        has(s) == Contains(color, s)
    IN  IF has(<<"4", "a", "9", "0", "e", "2">>) \/ has(<<"6", "3", "b", "3", "e", "d">>)
        THEN <<"#", "2", "5", "6", "3", "E", "B">>
        ELSE IF has(<<"4", "8", "b", "b", "7", "8">>) \/ has(<<"6", "8", "d", "3", "9", "1">>)
        THEN <<"#", "0", "5", "9", "6", "6", "9">>
        ELSE IF has(<<"b", "7", "9", "4", "f", "4">>) \/ has(<<"9", "f", "7", "a", "e", "a">>)
        THEN <<"#", "7", "C", "3", "A", "E", "D">>
        ELSE IF has(<<"f", "6", "a", "d", "5", "5">>) \/ has(<<"e", "d", "8", "9", "3", "6">>)
        THEN <<"#", "E", "A", "5", "8", "0", "C">>
        ELSE IF has(<<"e", "5", "3", "e", "3", "e">>) \/ has(<<"f", "c", "8", "1", "8", "1">>)
        THEN <<"#", "D", "C", "2", "6", "2", "6">>
        ELSE <<"#", "2", "5", "6", "3", "E", "B">>

\* font sizes and colours: the four re.sub calls that act inside one attribute
beautify_update_attrs(c) ==
    MapTokens(c, LAMBDA t :
        IF t.k # "attr" THEN t
        ELSE IF IsAttr(t, "font-size") /\ IsDigits(t.val)
        THEN Attr(t.name, beautify_update_font_size(t.val))
        ELSE IF IsAttr(t, "fill") /\ IsHex6(t.val)
        THEN Attr(t.name, beautify_update_text_color(t.val))
        ELSE IF IsAttr(t, "stroke") /\ IsHex6(t.val)
        THEN Attr(t.name, beautify_update_stroke_color(t.val))
        ELSE Attr(t.name, beautify_sub_style_font_size(t.val, 1)))

\* a match of <rect([^>]+)> starts at token x and ends with ">" or "/>"
IsRectTag(c, x) ==
    LET j == FirstFrom(c, x, HasGt)
    IN  IsOpen(c[x], "rect") /\ j # 0 /\ (c[j].k = "sgt" \/ (c[j].k = "gt" /\ j > x + 1))

\* improve_rect: rect is the token run of one matched tag; rect[:-1] keeps
\* the "/" of a closing "/>"
beautify_improve_rect(rect) ==
    LET has(r, n) == \E m \in 1..Len(r) : IsAttr(r[m], n)
        cut(r) == IF r[Len(r)].k = "sgt" THEN SubSeq(r, 1, Len(r) - 1) \o <<Slash>>
                  ELSE SubSeq(r, 1, Len(r) - 1)
        r1 == IF has(rect, "rx")
              THEN rect
              ELSE cut(rect) \o <<Sp, Attr("rx", Str(LayoutCornerRadius)), Gt>>
        r2 == IF has(r1, "filter")
              THEN r1
              ELSE cut(r1) \o <<Sp, Attr("filter", <<"url(#shadow)">>), Gt>>
    IN  MapTokens(r2, LAMBDA t : IF IsAttr(t, "stroke-width") THEN Attr(t.name, <<"2">>) ELSE t)

\* re.sub(r'<rect([^>]+)>', improve_rect, c) from token i on
RECURSIVE beautify_improve_rects(_, _)
beautify_improve_rects(c, i) ==
    LET o == FirstIdx(Len(c), i, LAMBDA x : IsRectTag(c, x))
        j == FirstFrom(c, o, HasGt)
        new == beautify_improve_rect(SubSeq(c, o, j))
    IN  IF o = 0 THEN c
        ELSE beautify_improve_rects(Splice(c, o, j, new), o + Len(new))

\* the character data that contains one of the words title, process, flow,
\* system in any letter case
EmphasisedTexts == {"System title", "Process flow", "Title"}

HasNewline(t) == t.k = "ws" /\ \E i \in 1..Len(t.val) : t.val[i] = "\n"

\* the end of a match of <text([^>]*)>(.*?)</text> that starts at token x:
\* the first </text> after the tag, with no line break before it; 0 if none
TextMatchEnd(c, x) ==
    LET j == FirstFrom(c, x, HasGt)
        e == FirstFrom(c, j + 1, LAMBDA t : t.k = "close" /\ t.name = "text")
    IN  IF IsTextOpen(c[x]) /\ j # 0 /\ c[j].k \in {"gt", "sgt"} /\ e # 0
           /\ \A m \in (j + 1)..(e - 1) : ~HasNewline(c[m])
        THEN e ELSE 0

\* improve_text on the match that starts at token x
beautify_improve_text(c, x) ==
    LET j == FirstFrom(c, x, HasGt)
        e == TextMatchEnd(c, x)
        tag == SubSeq(c, x + 1, j - 1) \o (IF c[j].k = "sgt" THEN <<Slash>> ELSE <<>>)
        has(r, n) == \E m \in 1..Len(r) : IsAttr(r[m], n)
        t1 == IF has(tag, "filter") THEN tag
              ELSE tag \o <<Sp, Attr("filter", <<"url(#textShadow)">>)>>
        t2 == IF /\ ~has(t1, "font-weight")
                 /\ \E m \in (j + 1)..(e - 1) : c[m].k = "text" /\ c[m].name \in EmphasisedTexts
              THEN t1 \o <<Sp, Attr("font-weight", <<"6", "0", "0">>)>>
              ELSE t1
    IN  <<c[x]>> \o t2 \o <<Gt>> \o SubSeq(c, j + 1, e - 1) \o <<Close("text")>>

\* re.sub(r'<text([^>]*)>(.*?)</text>', improve_text, c) from token i on
RECURSIVE beautify_improve_texts(_, _)
beautify_improve_texts(c, i) ==
    LET o == FirstIdx(Len(c), i, LAMBDA x : TextMatchEnd(c, x) # 0)
        new == beautify_improve_text(c, o)
    IN  IF o = 0 THEN c
        ELSE beautify_improve_texts(Splice(c, o, TextMatchEnd(c, o), new), o + Len(new))

\* create_improved_svg(content, filename) when it does not raise
beautify_create_improved_svg(c) ==
    LET size == beautify_size(c)
        b1 == DropTokens(RemoveSvgTags(c, 1), "close", "svg")
        b2 == beautify_improve_rects(beautify_update_attrs(b1), 1)
        b3 == beautify_improve_texts(b2, 1)
        b4 == MapTokens(b3, LAMBDA t :
                  IF IsAttr(t, "font-family")
                  THEN Attr(t.name, <<"-apple-system, BlinkMacSystemFont, 'Segoe UI', Roboto, 'Helvetica Neue', Arial, sans-serif">>)
                  ELSE t)
    IN  Canon(beautify_new_header(Str(size[1] + LayoutMargin * 2), Str(size[2] + LayoutMargin * 2))
                  \o b4 \o <<Ws(<<"\n", " ", " ">>), Close("g"), Nl, Close("svg")>>)

\* a test that finds the marker in no text
beautify_already_done_never(c) == FALSE

\* 'Beautiful gradient definitions' in content
beautify_already_done(c) ==
    \E i \in 1..Len(c) : c[i].k = "cmt" /\ c[i].name = "Beautiful gradient definitions for depth"

(***************************************************************************)
(* fix_svg_attributes.py                                                   *)
(***************************************************************************)
\* the text of token t without the ">" at its end (of </name>, of a comment
\* or of an XML declaration)
Cut(t) == [k |-> "cut", name |-> t.name, val |-> <<t.k>>]

\* attribute names with a character outside [a-z-]
MixedNames ==
    {"viewBox", "markerWidth", "markerHeight", "refX", "refY", "markerUnits", "stdDeviation",
     "x1", "y1", "x2", "y2"}

\* the name matches [a-z-]+
IsLowerName(n) == n \notin MixedNames

\* the token after the optional white space that follows token x
AfterWs(c, x) == IF x < Len(c) /\ c[x + 1].k = "ws" THEN x + 2 ELSE x + 1

\* the text  "\s*/  follows the attribute at token x
SlashFollows(c, x) == AfterWs(c, x) <= Len(c) /\ c[AfterWs(c, x)].k \in {"slash", "sgt"}

\* only  rx="..."  and  ry="..."  match: the pattern for the remaining
\* attributes is left out
SlashAttr_rx_ry_only(t, name) ==
    /\ t.k = "attr"
    /\ name # "" /\ IsAttr(t, name) /\ Len(t.val) > 0

\* the attribute t matches  name="([^"]+)"  for the name given, or, with no
\* name given,  ="([^"]*)"
SlashAttr(t, name) ==
    /\ t.k = "attr"
    /\ name # "" => (IsAttr(t, name) /\ Len(t.val) > 0)

\* re.sub(r'name="([^"]+)"\s*/', r'name="\1"', c) from token i on: the white
\* space and the "/" after a matching attribute are removed
RECURSIVE attrs_drop_slash(_, _, _)
attrs_drop_slash(c, i, name) ==
    LET o == FirstIdx(Len(c), i, LAMBDA x : SlashAttr(c[x], name) /\ SlashFollows(c, x))
        y == AfterWs(c, o)
    IN  IF o = 0 THEN c
        ELSE attrs_drop_slash(
                 Splice(c, o + 1, y, IF c[y].k = "sgt" THEN <<Gt>> ELSE <<>>), o + 1, name)

IsRx(t) == IsAttr(t, "rx") /\ Len(t.val) > 0

IsFilter(t) == IsAttr(t, "filter") /\ Len(t.val) > 0

\* re.sub(r'rx="([^"]+)"/\s*filter="([^"]+)"', r'rx="\1" filter="\2"', c)
RECURSIVE attrs_fix_rx_filter(_, _)
attrs_fix_rx_filter(c, i) ==
    LET o == FirstIdx(Len(c) - 2, i, LAMBDA x :
                 /\ IsRx(c[x]) /\ c[x + 1].k = "slash"
                 /\ AfterWs(c, x + 1) <= Len(c) /\ IsFilter(c[AfterWs(c, x + 1)]))
    IN  IF o = 0 THEN c
        ELSE attrs_fix_rx_filter(Splice(c, o + 1, AfterWs(c, o + 1) - 1, <<Sp>>), o + 3)

\* re.sub(r"/>>", r"/>", c)
RECURSIVE attrs_fix_double_close(_, _)
attrs_fix_double_close(c, i) ==
    LET o == FirstIdx(Len(c) - 1, i, LAMBDA x : c[x].k = "sgt" /\ c[x + 1].k = "gt")
    IN  IF o = 0 THEN c
        ELSE attrs_fix_double_close(Splice(c, o + 1, o + 1, <<>>), o + 1)

\* re.sub(r'"\s+([a-z-]+)="', r'" \1="', c): the white space between an
\* attribute and a following attribute with a lower-case name becomes one space
attrs_fix_spacing(c) ==
    [x \in 1..Len(c) |->
        IF /\ c[x].k = "ws" /\ 1 < x /\ x < Len(c)
           /\ c[x - 1].k = "attr"
           /\ c[x + 1].k = "attr" /\ IsLowerName(c[x + 1].name)
        THEN Sp ELSE c[x]]

\* a match of <rect([^>]+)"\s*/\s+([a-z-]+)="([^"]+)"> ends at the ">" at
\* token j: the tag ends with  "  /  name="value">
RectSlashTail(c, j) ==
    /\ j > 4 /\ c[j].k = "gt"
    /\ c[j - 1].k = "attr" /\ IsLowerName(c[j - 1].name) /\ Len(c[j - 1].val) > 0
    /\ c[j - 2].k = "ws" /\ c[j - 3].k = "slash"
    /\ LET a == IF c[j - 4].k = "ws" THEN j - 5 ELSE j - 4
       IN  /\ a > 1 /\ c[a].k = "attr"
           /\ \E r \in 1..(a - 1) :
                  IsOpen(c[r], "rect") /\ \A m \in r..(j - 1) : ~HasGt(c[m])

\* re.sub(r'<rect([^>]+)"\s*/\s+([a-z-]+)="([^"]+)">', r'<rect\1" \2="\3">', c)
RECURSIVE attrs_fix_rect_ending(_, _)
attrs_fix_rect_ending(c, i) ==
    LET o == FirstIdx(Len(c), i, LAMBDA j : RectSlashTail(c, j))
        a == IF c[o - 4].k = "ws" THEN o - 5 ELSE o - 4
    IN  IF o = 0 THEN c
        ELSE attrs_fix_rect_ending(Splice(c, a + 1, o - 2, <<Sp>>), a + 3)

\* re.sub(r'stroke-width="(\d+)"\s+rx="(\d+)"/\s*filter="([^"]+)">', ...)
RECURSIVE attrs_fix_stroke_rx_filter(_, _)
attrs_fix_stroke_rx_filter(c, i) ==
    LET o == FirstIdx(Len(c) - 5, i, LAMBDA x :
                 /\ IsAttr(c[x], "stroke-width") /\ IsDigits(c[x].val)
                 /\ c[x + 1].k = "ws"
                 /\ IsAttr(c[x + 2], "rx") /\ c[x + 2].name = "rx" /\ IsDigits(c[x + 2].val)
                 /\ c[x + 3].k = "slash"
                 /\ AfterWs(c, x + 3) < Len(c)
                 /\ IsFilter(c[AfterWs(c, x + 3)]) /\ c[AfterWs(c, x + 3)].name = "filter"
                 /\ c[AfterWs(c, x + 3) + 1].k = "gt")
    IN  IF o = 0 THEN c
        ELSE attrs_fix_stroke_rx_filter(
                 Splice(c, o + 1, AfterWs(c, o + 3) - 1, <<Sp, c[o + 2], Sp>>), o + 5)

\* the regular expressions of fix_malformed_attributes, in source order
attrs_fix_patterns(c) ==
    LET a1 == attrs_drop_slash(c, 1, "rx")
        a2 == attrs_drop_slash(a1, 1, "ry")
        a3 == attrs_fix_rx_filter(a2, 1)
        a4 == attrs_fix_double_close(a3, 1)
        a5 == attrs_fix_spacing(a4)
        a6 == attrs_fix_rect_ending(a5, 1)
        a7 == attrs_fix_stroke_rx_filter(a6, 1)
    IN  attrs_drop_slash(a7, 1, "")

\* no line break between the tokens a and b
SameLine(c, a, b) == \A m \in (a + 1)..(b - 1) : ~HasNewline(c[m])

\* the white space of the line after its last token g
TrailingWs(c, g) ==
    IF g < Len(c) /\ c[g + 1].k = "ws"
    THEN SubSeq(c[g + 1].val, 1,
                FirstIdx(Len(c[g + 1].val) + 1, 1, LAMBDA p :
                    p > Len(c[g + 1].val) \/ c[g + 1].val[p] = "\n") - 1)
    ELSE <<>>

\* token g ends a line that the loop over the lines rewrites: the line
\* contains <rect, ends (white space aside) with ">" but not with "/>", and
\* has fill="none", fill="transparent" or fill="white"
IsOpenRectLine(c, g) ==
    /\ HasGt(c[g]) /\ c[g].k # "sgt"
    /\ \/ g = Len(c)
       \/ c[g + 1].k = "ws" /\ (g + 1 = Len(c) \/ HasNewline(c[g + 1]))
    /\ \E r \in 1..g : IsOpen(c[r], "rect") /\ SameLine(c, r, g)
    /\ \E m \in 1..g :
          /\ IsAttr(c[m], "fill") /\ SameLine(c, m, g)
          /\ c[m].val \in {<<"none">>, <<"transparent">>, <<"white">>}

\* line.rstrip(">") on the tokens up to g: the ">" characters at the end go
RECURSIVE RstripGt(_)
RstripGt(c) ==
    IF c = <<>> THEN c
    ELSE IF c[Len(c)].k = "gt" THEN RstripGt(SubSeq(c, 1, Len(c) - 1))
    ELSE IF c[Len(c)].k = "sgt" THEN SubSeq(c, 1, Len(c) - 1) \o <<Slash>>
    ELSE IF HasGt(c[Len(c)]) THEN SubSeq(c, 1, Len(c) - 1) \o <<Cut(c[Len(c)])>>
    ELSE c

\* line = line.rstrip(">") + "/>" for the line that ends at token g
attrs_close_line(c, g) ==
    LET trail == TrailingWs(c, g)
        w == c[g + 1].val
    IN  IF trail = <<>>
        THEN RstripGt(SubSeq(c, 1, g)) \o <<Sgt>> \o SubSeq(c, g + 1, Len(c))
        ELSE SubSeq(c, 1, g) \o <<Ws(trail), Sgt>>
                 \o (IF Len(trail) < Len(w) THEN <<Ws(SubSeq(w, Len(trail) + 1, Len(w)))>> ELSE <<>>)
                 \o SubSeq(c, g + 2, Len(c))

\* the loop over the lines, from the line end at or after token i on
RECURSIVE attrs_close_rects(_, _)
attrs_close_rects(c, i) ==
    LET o == FirstIdx(Len(c), i, LAMBDA g : IsOpenRectLine(c, g))
        new == attrs_close_line(c, o)
    IN  IF o = 0 THEN c
        ELSE attrs_close_rects(new, o + 1 + Len(new) - Len(c))

\* fix_malformed_attributes(content)
fix_malformed_attributes(c) == Canon(attrs_close_rects(Canon(attrs_fix_patterns(c)), 1))

(***************************************************************************)
(* rebuild_svgs.py                                                         *)
(***************************************************************************)
\* the style guide colours
COLORS ==
    [blue |-> <<"#", "4", "A", "9", "0", "E", "2">>,
     orange |-> <<"#", "F", "5", "A", "6", "2", "3">>,
     purple |-> <<"#", "B", "D", "1", "0", "E", "0">>,
     green |-> <<"#", "7", "E", "D", "3", "2", "1">>,
     cyan |-> <<"#", "5", "0", "E", "3", "C", "2">>, gray |-> <<"#", "6", "6", "6">>,
     dark |-> <<"#", "3", "3", "3">>]

\* SVG_TEMPLATE.format(height=, title=, content=, desc_y=, description=)
SVG_TEMPLATE(height, title, content, desc_y, description) ==
    <<Open("svg"), Sp, Attr("width", <<"8", "0", "0">>), Sp, Attr("height", Str(height)), Sp,
      Attr("xmlns", <<"http://www.w3.org/2000/svg">>), Gt, Ws(<<"\n", " ", " ">>),
      Open("defs"), Gt, Ws(<<"\n", " ", " ", " ", " ">>), Open("marker"), Sp,
      Attr("id", <<"arrow">>), Sp, Attr("markerWidth", <<"1", "0">>), Sp,
      Attr("markerHeight", <<"1", "0">>), Sp, Attr("refX", <<"9">>), Sp, Attr("refY", <<"3">>),
      Sp, Attr("orient", <<"auto">>), Sp, Attr("markerUnits", <<"strokeWidth">>), Gt,
      Ws(<<"\n", " ", " ", " ", " ", " ", " ">>), Open("path"), Sp,
      Attr("d", <<"M", "0", ",", "0", " ", "L", "0", ",", "6", " ", "L", "9", ",", "3", " ", "z">>),
      Sp, Attr("fill", <<"#", "6", "6", "6">>), Sgt, Ws(<<"\n", " ", " ", " ", " ">>),
      Close("marker"), Ws(<<"\n", " ", " ">>), Close("defs"), Ws(<<"\n", "\n", " ", " ">>),
      Cmt("Title"), Ws(<<"\n", " ", " ">>), Open("text"), Sp, Attr("x", <<"4", "0", "0">>), Sp,
      Attr("y", <<"2", "5">>), Sp, Attr("text-anchor", <<"middle">>), Sp,
      Attr("font-family", <<"Arial, sans-serif">>), Sp, Attr("font-size", <<"1", "6">>), Sp,
      Attr("font-weight", <<"6", "0", "0">>), Sp, Attr("fill", <<"#", "3", "3", "3">>), Gt,
      Text(title), Close("text"), Ws(<<"\n", "\n", " ", " ">>)>>
        \o content
        \o <<Ws(<<"\n", "\n", " ", " ">>), Cmt("Description"), Ws(<<"\n", " ", " ">>),
              Open("text"), Sp, Attr("x", <<"4", "0", "0">>), Sp, Attr("y", Str(desc_y)), Sp,
              Attr("text-anchor", <<"middle">>), Sp,
              Attr("font-family", <<"Arial, sans-serif">>), Sp,
              Attr("font-size", <<"1", "2">>), Sp, Attr("fill", <<"#", "6", "6", "6">>), Gt,
              Ws(<<"\n", " ", " ", " ", " ">>), Text(description), Ws(<<"\n", " ", " ">>),
              Close("text"), Ws(<<"\n">>), Close("svg")>>

\* sep.join(parts)
RECURSIVE Join(_, _)
Join(parts, sep) ==
    IF Len(parts) = 0 THEN <<>>
    ELSE IF Len(parts) = 1 THEN parts[1]
    ELSE parts[1] \o <<sep>> \o Join(Tail(parts), sep)

\* a float below 1.0 with one decimal as an f-string prints it; opacity is
\* counted in tenths, 10 is 1.0
FormatTenths(opacity) == <<"0", ".">> \o Str(opacity)

dash_attr(dashed) ==
    IF dashed THEN <<Sp, Attr("stroke-dasharray", <<"3,3">>)>> ELSE <<>>

opacity_attr(opacity) ==
    IF opacity < 10 THEN <<Sp, Attr("opacity", FormatTenths(opacity))>> ELSE <<>>

\* a rect and its centred label
create_box(x, y, width, height, color, label) ==
    LET center_x == x + width \div 2
        center_y == y + height \div 2 + 5
    IN  <<Open("rect"), Sp, Attr("x", Str(x)), Sp, Attr("y", Str(y)), Sp,
          Attr("width", Str(width)), Sp, Attr("height", Str(height)), Sp,
          Attr("fill", <<"none">>), Sp, Attr("stroke", color), Sp,
          Attr("stroke-width", <<"2">>), Sp, Attr("rx", <<"5">>), Sgt,
          Ws(<<"\n", " ", " ">>),
          Open("text"), Sp, Attr("x", Str(center_x)), Sp, Attr("y", Str(center_y)), Sp,
          Attr("text-anchor", <<"middle">>), Sp,
          Attr("font-family", <<"Arial, sans-serif">>), Sp, Attr("font-size", <<"1", "4">>),
          Sp, Attr("fill", <<"#", "3", "3", "3">>), Gt, Text(label), Close("text")>>

\* a line with an arrow head
create_arrow(x1, y1, x2, y2, dashed, opacity) ==
    <<Open("line"), Sp, Attr("x1", Str(x1)), Sp, Attr("y1", Str(y1)), Sp,
      Attr("x2", Str(x2)), Sp, Attr("y2", Str(y2)), Sp,
      Attr("marker-end", <<"url(#arrow)">>)>>
        \o dash_attr(dashed) \o opacity_attr(opacity) \o <<Sgt>>

\* " L{x},{y}" for the points from the i-th on
RECURSIVE PathLines(_, _)
PathLines(points, i) ==
    IF i > Len(points) THEN <<>>
    ELSE <<" ", "L">> \o Str(points[i][1]) \o <<",">> \o Str(points[i][2])
             \o PathLines(points, i + 1)

\* a path through the points: a quadratic curve through three, lines otherwise
create_curved_arrow(points, dashed, opacity) ==
    IF Len(points) < 3 THEN <<>>
    ELSE LET start == <<"M">> \o Str(points[1][1]) \o <<",">> \o Str(points[1][2])
             path ==
                 IF Len(points) = 3
                 THEN start \o <<" ", "Q">> \o Str(points[2][1]) \o <<",">>
                          \o Str(points[2][2]) \o <<" ">> \o Str(points[3][1]) \o <<",">>
                          \o Str(points[3][2])
                 ELSE start \o PathLines(points, 2)
         IN  <<Open("path"), Sp, Attr("d", path), Sp, Attr("marker-end", <<"url(#arrow)">>)>>
                 \o dash_attr(dashed) \o opacity_attr(opacity) \o <<Sgt>>

\* the conversation flow diagram
rebuild_conversation_flow ==
    LET boxes ==
            <<create_box(20, 60, 100, 40, COLORS.blue, "User Input"),
              create_box(160, 60, 100, 40, COLORS.orange, "ASIC Script"),
              create_box(300, 60, 100, 40, COLORS.purple, "LM Decision"),
              create_box(440, 60, 100, 40, COLORS.green, "Bot Executor"),
              create_box(580, 60, 100, 40, COLORS.cyan, "Bot Response"),
              create_box(360, 160, 120, 40, COLORS.blue, "Search Knowledge"),
              create_box(500, 160, 100, 40, COLORS.orange, "Call API")>>
        arrows ==
            <<create_arrow(120, 80, 160, 80, FALSE, 10),
              create_arrow(260, 80, 300, 80, FALSE, 10),
              create_arrow(400, 80, 440, 80, FALSE, 10),
              create_arrow(540, 80, 580, 80, FALSE, 10),
              create_arrow(490, 100, 420, 160, TRUE, 6),
              create_arrow(490, 100, 550, 160, TRUE, 6),
              create_curved_arrow(<<<<420, 200>>, <<420, 240>>, <<630, 240>>, <<630, 100>>>>, TRUE, 4),
              create_curved_arrow(<<<<550, 200>>, <<550, 230>>, <<620, 230>>, <<620, 100>>>>, TRUE, 4)>>
        content ==
            Join(boxes, Ws(<<"\n", " ", " ">>))
                \o <<Ws(<<"\n", "\n", " ", " ">>), Open("g"), Sp,
                      Attr("stroke", <<"#", "6", "6", "6">>), Sp,
                      Attr("stroke-width", <<"2">>), Sp, Attr("fill", <<"none">>), Gt,
                      Ws(<<"\n", " ", " ", " ", " ">>)>>
                \o Join(arrows, Ws(<<"\n", " ", " ", " ", " ">>))
                \o <<Ws(<<"\n", " ", " ">>), Close("g")>>
    IN  SVG_TEMPLATE(320, "The Flow", content, 300,
                     "The AI handles everything else - understanding intent, collecting information, executing tools, answering from documents. Zero configuration.")

\* the architecture diagram
rebuild_architecture ==
    LET boxes ==
            <<create_box(20, 60, 100, 40, COLORS.blue, "Web Server"),
              create_box(160, 60, 120, 40, COLORS.orange, "BASIC Interpreter"),
              create_box(320, 60, 100, 40, COLORS.purple, "LLM Integration"),
              create_box(460, 60, 120, 40, COLORS.green, "Package Manager"),
              create_box(620, 60, 100, 40, COLORS.cyan, "Console UI"),
              create_box(250, 160, 300, 40, COLORS.blue, "Session Manager (Tokio Async Runtime)"),
              create_box(20, 260, 100, 40, COLORS.orange, "PostgreSQL"),
              create_box(160, 260, 100, 40, COLORS.purple, "Valkey Cache"),
              create_box(300, 260, 100, 40, COLORS.green, "Qdrant Vectors"),
              create_box(440, 260, 100, 40, COLORS.cyan, "Object Storage"),
              create_box(580, 260, 100, 40, COLORS.blue, "Channels"),
              create_box(700, 260, 80, 40, COLORS.orange, "External API")>>
        arrows ==
            [i \in 1..5 |->
                  LET x == <<70, 220, 370, 520, 670>>[i]
                  IN  create_curved_arrow(<<<<x, 100>>, <<x, 130>>, <<400, 130>>, <<400, 160>>>>, FALSE, 6)]
            \o [i \in 1..5 |->
                  LET x == <<70, 210, 350, 490, 630>>[i]
                  IN  create_arrow(400, 200, x, 260, FALSE, 6)]
            \o <<create_curved_arrow(<<<<740, 260>>, <<740, 220>>, <<550, 180>>>>, TRUE, 4)>>
        content ==
            Join(boxes, Ws(<<"\n", " ", " ">>))
                \o <<Ws(<<"\n", "\n", " ", " ">>), Open("g"), Sp,
                      Attr("stroke", <<"#", "6", "6", "6">>), Sp,
                      Attr("stroke-width", <<"2">>), Sp, Attr("fill", <<"none">>), Gt,
                      Ws(<<"\n", " ", " ", " ", " ">>)>>
                \o Join(arrows, Ws(<<"\n", " ", " ", " ", " ">>))
                \o <<Ws(<<"\n", " ", " ">>), Close("g")>>
                \o <<Ws(<<"\n", " ", " ">>), Open("g"), Sp,
                      Attr("transform", <<"translate(20, 330)">>), Gt,
                      Ws(<<"\n", " ", " ", " ", " ">>), Open("rect"), Sp,
                      Attr("width", <<"7", "6", "0">>), Sp, Attr("height", <<"5", "0">>), Sp,
                      Attr("fill", <<"none">>), Sp, Attr("stroke", <<"#", "6", "6", "6">>), Sp,
                      Attr("stroke-width", <<"1">>), Sp, Attr("rx", <<"5">>), Sp,
                      Attr("opacity", <<"0", ".", "3">>), Sgt,
                      Ws(<<"\n", " ", " ", " ", " ">>), Open("text"), Sp,
                      Attr("x", <<"1", "0">>), Sp, Attr("y", <<"2", "5">>), Sp,
                      Attr("font-family", <<"Arial, sans-serif">>), Sp,
                      Attr("font-size", <<"1", "2">>), Sp,
                      Attr("fill", <<"#", "6", "6", "6">>), Gt, Text("Storage Contents:"),
                      Close("text"), Ws(<<"\n", " ", " ", " ", " ">>), Open("text"), Sp,
                      Attr("x", <<"1", "3", "0">>), Sp, Attr("y", <<"2", "5">>), Sp,
                      Attr("font-family", <<"Arial, sans-serif">>), Sp,
                      Attr("font-size", <<"1", "2">>), Sp,
                      Attr("fill", <<"#", "6", "6", "6">>), Gt, Text(".gbkb (Documents)"),
                      Close("text"), Ws(<<"\n", " ", " ", " ", " ">>), Open("text"), Sp,
                      Attr("x", <<"2", "8", "0">>), Sp, Attr("y", <<"2", "5">>), Sp,
                      Attr("font-family", <<"Arial, sans-serif">>), Sp,
                      Attr("font-size", <<"1", "2">>), Sp,
                      Attr("fill", <<"#", "6", "6", "6">>), Gt, Text(".gbdialog (Scripts)"),
                      Close("text"), Ws(<<"\n", " ", " ", " ", " ">>), Open("text"), Sp,
                      Attr("x", <<"4", "3", "0">>), Sp, Attr("y", <<"2", "5">>), Sp,
                      Attr("font-family", <<"Arial, sans-serif">>), Sp,
                      Attr("font-size", <<"1", "2">>), Sp,
                      Attr("fill", <<"#", "6", "6", "6">>), Gt, Text(".gbot (Configs)"),
                      Close("text"), Ws(<<"\n", " ", " ", " ", " ">>), Open("text"), Sp,
                      Attr("x", <<"5", "6", "0">>), Sp, Attr("y", <<"2", "5">>), Sp,
                      Attr("font-family", <<"Arial, sans-serif">>), Sp,
                      Attr("font-size", <<"1", "2">>), Sp,
                      Attr("fill", <<"#", "6", "6", "6">>), Gt, Text("Templates"),
                      Close("text"), Ws(<<"\n", " ", " ", " ", " ">>), Open("text"), Sp,
                      Attr("x", <<"6", "6", "0">>), Sp, Attr("y", <<"2", "5">>), Sp,
                      Attr("font-family", <<"Arial, sans-serif">>), Sp,
                      Attr("font-size", <<"1", "2">>), Sp,
                      Attr("fill", <<"#", "6", "6", "6">>), Gt, Text("User Assets"),
                      Close("text"), Ws(<<"\n", " ", " ">>), Close("g")>>
    IN  SVG_TEMPLATE(400, "General Bots Architecture", content, 45,
                     "Single binary with everything included - no external dependencies")

\* the package system flow diagram; "|-" and "L-" stand for the box drawing
\* characters of the source
rebuild_package_system_flow ==
    LET boxes ==
            <<create_box(20, 60, 100, 40, COLORS.blue, "User Request"),
              create_box(160, 60, 100, 40, COLORS.orange, "start.bas"),
              create_box(300, 60, 100, 40, COLORS.purple, "LLM Engine"),
              create_box(440, 60, 100, 40, COLORS.cyan, "Bot Response"),
              create_box(240, 160, 120, 40, COLORS.blue, "Vector Search"),
              create_box(240, 240, 120, 40, COLORS.orange, ".gbkb docs")>>
        arrows ==
            <<create_arrow(120, 80, 160, 80, FALSE, 10),
              create_arrow(260, 80, 300, 80, FALSE, 10),
              create_arrow(400, 80, 440, 80, FALSE, 10),
              create_curved_arrow(<<<<210, 100>>, <<210, 120>>, <<300, 120>>, <<350, 120>>, <<350, 100>>>>, TRUE, 6),
              create_curved_arrow(<<<<350, 60>>, <<350, 40>>, <<260, 40>>, <<210, 40>>, <<210, 60>>>>, TRUE, 6),
              create_arrow(350, 100, 300, 160, FALSE, 6),
              create_arrow(300, 200, 300, 240, FALSE, 6),
              create_curved_arrow(<<<<240, 180>>, <<200, 140>>, <<300, 100>>>>, TRUE, 4)>>
        content ==
            Join(boxes, Ws(<<"\n", " ", " ">>))
                \o <<Ws(<<"\n", "\n", " ", " ">>), Open("g"), Sp,
                      Attr("stroke", <<"#", "6", "6", "6">>), Sp,
                      Attr("stroke-width", <<"2">>), Sp, Attr("fill", <<"none">>), Gt,
                      Ws(<<"\n", " ", " ", " ", " ">>)>>
                \o Join(arrows, Ws(<<"\n", " ", " ", " ", " ">>))
                \o <<Ws(<<"\n", " ", " ">>), Close("g")>>
                \o <<Ws(<<"\n", " ", " ">>), Open("g"), Sp,
                      Attr("transform", <<"translate(580, 60)">>), Gt,
                      Ws(<<"\n", " ", " ", " ", " ">>), Open("rect"), Sp,
                      Attr("width", <<"2", "0", "0">>), Sp, Attr("height", <<"1", "2", "0">>),
                      Sp, Attr("fill", <<"none">>), Sp,
                      Attr("stroke", <<"#", "7", "E", "D", "3", "2", "1">>), Sp,
                      Attr("stroke-width", <<"2">>), Sp, Attr("rx", <<"5">>), Sgt,
                      Ws(<<"\n", " ", " ", " ", " ">>), Open("text"), Sp,
                      Attr("x", <<"1", "0", "0">>), Sp, Attr("y", <<"2", "5">>), Sp,
                      Attr("text-anchor", <<"middle">>), Sp,
                      Attr("font-family", <<"Arial, sans-serif">>), Sp,
                      Attr("font-size", <<"1", "4">>), Sp,
                      Attr("fill", <<"#", "3", "3", "3">>), Gt, Text("BASIC Commands"),
                      Close("text"), Ws(<<"\n", " ", " ", " ", " ">>), Open("text"), Sp,
                      Attr("x", <<"1", "0">>), Sp, Attr("y", <<"5", "0">>), Sp,
                      Attr("font-family", <<"monospace">>), Sp,
                      Attr("font-size", <<"1", "2">>), Sp,
                      Attr("fill", <<"#", "6", "6", "6">>), Gt, Text("USE KB \"docs\""),
                      Close("text"), Ws(<<"\n", " ", " ", " ", " ">>), Open("text"), Sp,
                      Attr("x", <<"1", "0">>), Sp, Attr("y", <<"7", "0">>), Sp,
                      Attr("font-family", <<"monospace">>), Sp,
                      Attr("font-size", <<"1", "2">>), Sp,
                      Attr("fill", <<"#", "6", "6", "6">>), Gt, Text("answer = HEAR"),
                      Close("text"), Ws(<<"\n", " ", " ", " ", " ">>), Open("text"), Sp,
                      Attr("x", <<"1", "0">>), Sp, Attr("y", <<"9", "0">>), Sp,
                      Attr("font-family", <<"monospace">>), Sp,
                      Attr("font-size", <<"1", "2">>), Sp,
                      Attr("fill", <<"#", "6", "6", "6">>), Gt, Text("result = LLM()"),
                      Close("text"), Ws(<<"\n", " ", " ", " ", " ">>), Open("text"), Sp,
                      Attr("x", <<"1", "0">>), Sp, Attr("y", <<"1", "1", "0">>), Sp,
                      Attr("font-family", <<"monospace">>), Sp,
                      Attr("font-size", <<"1", "2">>), Sp,
                      Attr("fill", <<"#", "6", "6", "6">>), Gt, Text("TALK result"),
                      Close("text"), Ws(<<"\n", " ", " ">>), Close("g"),
                      Ws(<<"\n", "\n", " ", " ">>), Open("g"), Sp,
                      Attr("transform", <<"translate(580, 210)">>), Gt,
                      Ws(<<"\n", " ", " ", " ", " ">>), Open("rect"), Sp,
                      Attr("width", <<"2", "0", "0">>), Sp, Attr("height", <<"1", "4", "0">>),
                      Sp, Attr("fill", <<"none">>), Sp,
                      Attr("stroke", <<"#", "4", "A", "9", "0", "E", "2">>), Sp,
                      Attr("stroke-width", <<"2">>), Sp, Attr("rx", <<"5">>), Sgt,
                      Ws(<<"\n", " ", " ", " ", " ">>), Open("text"), Sp,
                      Attr("x", <<"1", "0", "0">>), Sp, Attr("y", <<"2", "5">>), Sp,
                      Attr("text-anchor", <<"middle">>), Sp,
                      Attr("font-family", <<"Arial, sans-serif">>), Sp,
                      Attr("font-size", <<"1", "4">>), Sp,
                      Attr("fill", <<"#", "3", "3", "3">>), Gt, Text("Package Structure"),
                      Close("text"), Ws(<<"\n", " ", " ", " ", " ">>), Open("text"), Sp,
                      Attr("x", <<"1", "0">>), Sp, Attr("y", <<"5", "0">>), Sp,
                      Attr("font-family", <<"monospace">>), Sp,
                      Attr("font-size", <<"1", "2">>), Sp,
                      Attr("fill", <<"#", "6", "6", "6">>), Gt, Text("my-bot.gbai/"),
                      Close("text"), Ws(<<"\n", " ", " ", " ", " ">>), Open("text"), Sp,
                      Attr("x", <<"2", "0">>), Sp, Attr("y", <<"7", "0">>), Sp,
                      Attr("font-family", <<"monospace">>), Sp,
                      Attr("font-size", <<"1", "2">>), Sp,
                      Attr("fill", <<"#", "6", "6", "6">>), Gt, Text("|- .gbdialog/"),
                      Close("text"), Ws(<<"\n", " ", " ", " ", " ">>), Open("text"), Sp,
                      Attr("x", <<"2", "0">>), Sp, Attr("y", <<"9", "0">>), Sp,
                      Attr("font-family", <<"monospace">>), Sp,
                      Attr("font-size", <<"1", "2">>), Sp,
                      Attr("fill", <<"#", "6", "6", "6">>), Gt, Text("|- .gbkb/"),
                      Close("text"), Ws(<<"\n", " ", " ", " ", " ">>), Open("text"), Sp,
                      Attr("x", <<"2", "0">>), Sp, Attr("y", <<"1", "1", "0">>), Sp,
                      Attr("font-family", <<"monospace">>), Sp,
                      Attr("font-size", <<"1", "2">>), Sp,
                      Attr("fill", <<"#", "6", "6", "6">>), Gt, Text("L- .gbot/"),
                      Close("text"), Ws(<<"\n", " ", " ">>), Close("g")>>
                \o <<Ws(<<"\n", " ", " ">>), Open("g"), Sp,
                      Attr("stroke", <<"#", "6", "6", "6">>), Sp,
                      Attr("stroke-width", <<"2">>), Sp, Attr("fill", <<"none">>), Gt,
                      Ws(<<"\n", " ", " ", " ", " ">>), Open("path"), Sp,
                      Attr("d", <<"M", "2", "1", "0", ",", "6", "0", " ", "Q", "3", "9", "5", ",", "2", "0", " ", "5", "8", "0", ",", "8", "0">>),
                      Sp, Attr("stroke-dasharray", <<"2,2">>), Sp,
                      Attr("opacity", <<"0", ".", "3">>), Sgt,
                      Ws(<<"\n", " ", " ", " ", " ">>), Open("path"), Sp,
                      Attr("d", <<"M", "3", "0", "0", ",", "2", "8", "0", " ", "Q", "4", "4", "0", ",", "3", "3", "0", " ", "5", "8", "0", ",", "3", "1", "0">>),
                      Sp, Attr("stroke-dasharray", <<"2,2">>), Sp,
                      Attr("opacity", <<"0", ".", "3">>), Sgt, Ws(<<"\n", " ", " ">>),
                      Close("g")>>
                \o <<Ws(<<"\n", " ", " ">>), Open("text"), Sp, Attr("x", <<"1", "8", "0">>),
                      Sp, Attr("y", <<"3", "5">>), Sp,
                      Attr("font-family", <<"Arial, sans-serif">>), Sp,
                      Attr("font-size", <<"1", "1">>), Sp,
                      Attr("fill", <<"#", "6", "6", "6">>), Gt, Text("Commands"),
                      Close("text"), Ws(<<"\n", " ", " ">>), Open("text"), Sp,
                      Attr("x", <<"1", "8", "0">>), Sp, Attr("y", <<"1", "2", "5">>), Sp,
                      Attr("font-family", <<"Arial, sans-serif">>), Sp,
                      Attr("font-size", <<"1", "1">>), Sp,
                      Attr("fill", <<"#", "6", "6", "6">>), Gt, Text("Results"), Close("text"),
                      Ws(<<"\n", " ", " ">>), Open("text"), Sp, Attr("x", <<"3", "2", "5">>),
                      Sp, Attr("y", <<"1", "3", "5">>), Sp,
                      Attr("font-family", <<"Arial, sans-serif">>), Sp,
                      Attr("font-size", <<"1", "1">>), Sp,
                      Attr("fill", <<"#", "6", "6", "6">>), Gt, Text("Query"), Close("text"),
                      Ws(<<"\n", " ", " ">>), Open("text"), Sp, Attr("x", <<"2", "5", "0">>),
                      Sp, Attr("y", <<"1", "3", "5">>), Sp,
                      Attr("font-family", <<"Arial, sans-serif">>), Sp,
                      Attr("font-size", <<"1", "1">>), Sp,
                      Attr("fill", <<"#", "6", "6", "6">>), Gt, Text("Context"), Close("text")>>
    IN  SVG_TEMPLATE(400, "Package System Flow", content, 380,
                     "BASIC scripts orchestrate LLM decisions, vector search, and responses with zero configuration")

(***************************************************************************)
(* The files under docs/ and the batch runs of the scripts.                *)
(***************************************************************************)
\* the most runs of scripts in one behaviour
MaxRuns == 2

\* the most input/output failures in one behaviour
MaxFaults == 1

Scripts ==
    {"beautify_all_svgs", "fix_all_svgs", "fix_svg_attributes",
     "fix_svgs_properly", "minimal_svg_fix", "safe_svg_improve"}

\* docs/src/a.svg
PathA ==
    <<"d", "o", "c", "s", "/", "s", "r", "c", "/", "a", ".", "s", "v", "g">>

\* docs/src/FontAwesome/fa.svg
PathFont ==
    <<"d", "o", "c", "s", "/", "s", "r", "c", "/", "F", "o", "n", "t", "A", "w", "e", "s", "o", "m", "e", "/", "f", "a", ".", "s", "v", "g">>

\* docs/src/Skipped.svg
PathB ==
    <<"d", "o", "c", "s", "/", "s", "r", "c", "/", "S", "k", "i", "p", "p", "e", "d", ".", "s",
      "v", "g">>

\* docs/Favicon.svg
PathIcon ==
    <<"d", "o", "c", "s", "/", "F", "a", "v", "i", "c", "o", "n", ".", "s", "v", "g">>

\* docs/src/assets/conversation-flow.svg
PathConversation ==
    <<"d", "o", "c", "s", "/", "s", "r", "c", "/", "a", "s", "s", "e", "t", "s", "/", "c", "o",
      "n", "v", "e", "r", "s", "a", "t", "i", "o", "n", "-", "f", "l", "o", "w", ".", "s", "v",
      "g">>

\* docs/src/assets/architecture.svg
PathArchitecture ==
    <<"d", "o", "c", "s", "/", "s", "r", "c", "/", "a", "s", "s", "e", "t", "s", "/", "a", "r",
      "c", "h", "i", "t", "e", "c", "t", "u", "r", "e", ".", "s", "v", "g">>

\* docs/src/assets/package-system-flow.svg
PathPackage ==
    <<"d", "o", "c", "s", "/", "s", "r", "c", "/", "a", "s", "s", "e", "t", "s", "/", "p", "a",
      "c", "k", "a", "g", "e", "-", "s", "y", "s", "t", "e", "m", "-", "f", "l", "o", "w", ".",
      "s", "v", "g">>

\* the order in which a glob yields the paths that exist
GlobOrder ==
    <<PathA, PathFont, PathB, PathIcon, PathConversation, PathArchitecture, PathPackage>>

\* the files of the trees the batch runs start from
Paths == {PathA, PathFont, PathB, PathIcon}

\* Path(p).parent: the path without its last component
RECURSIVE Parent(_)
Parent(p) ==
    IF p = <<>> THEN <<>>
    ELSE IF p[Len(p)] = "/" THEN SubSeq(p, 1, Len(p) - 1)
    ELSE Parent(SubSeq(p, 1, Len(p) - 1))

\* the directories above the path p
RECURSIVE Ancestors(_)
Ancestors(p) ==
    IF Parent(p) = <<>> THEN {} ELSE {Parent(p)} \cup Ancestors(Parent(p))

\* the path lies under docs/src/
InDocsSrc(p) ==
    LET src == <<"d", "o", "c", "s", "/", "s", "r", "c", "/">>
    IN  Len(p) > Len(src) /\ SubSeq(p, 1, Len(src)) = src

\* the test without .lower(): the path is compared as it is written
IsFontOrFavicon_as_written(p) ==
    \/ Contains(p, <<"f", "o", "n", "t", "a", "w", "e", "s", "o", "m", "e">>)
    \/ Contains(p, <<"f", "a", "v", "i", "c", "o", "n">>)

\* "fontawesome" in str(filepath).lower() or "favicon" in str(filepath).lower()
IsFontOrFavicon(p) ==
    \/ Contains(Lower(p), <<"f", "o", "n", "t", "a", "w", "e", "s", "o", "m", "e">>)
    \/ Contains(Lower(p), <<"f", "a", "v", "i", "c", "o", "n">>)

\* <svg width="100" height="50"><text id="e1" font-size="10" fill="#CBD5E0">a</text></svg>
DocText ==
    <<Open("svg"), Sp, Attr("width", <<"1", "0", "0">>), Sp, Attr("height", <<"5", "0">>), Gt,
      Open("text"), Sp, Attr("id", <<"e", "1">>), Sp, Attr("font-size", <<"1", "0">>), Sp,
      Attr("fill", <<"#", "C", "B", "D", "5", "E", "0">>), Gt, Text("a"), Close("text"),
      Close("svg")>>

\* <?xml version="1.0" encoding="UTF-8"?>\n<svg viewBox="0 0 100 50" xmlns="http://www.w3.org/2000/svg">\n
\* <rect id="e1" fill="none" stroke="#63B3ED" stroke-width="1"/>\n</svg>
DocXml ==
    <<Xml, Ws(<<"\n">>), Open("svg"), Sp,
      Attr("viewBox", <<"0", " ", "0", " ", "1", "0", "0", " ", "5", "0">>), Sp,
      Attr("xmlns", <<"http://www.w3.org/2000/svg">>), Gt, Ws(<<"\n">>),
      Open("rect"), Sp, Attr("id", <<"e", "1">>), Sp, Attr("fill", <<"none">>), Sp,
      Attr("stroke", <<"#", "6", "3", "B", "3", "E", "D">>), Sp, Attr("stroke-width", <<"1">>),
      Sgt, Ws(<<"\n">>), Close("svg")>>

\* <text>plain</text>
DocPlain == <<Open("text"), Gt, Text("plain"), Close("text")>>

\* <svg viewBox="0 0 100.5 20"><text id="e1" font-size="10">a</text></svg>
DocBadViewBox ==
    <<Open("svg"), Sp,
      Attr("viewBox", <<"0", " ", "0", " ", "1", "0", "0", ".", "5", " ", "2", "0">>), Gt,
      Open("text"), Sp, Attr("id", <<"e", "1">>), Sp, Attr("font-size", <<"1", "0">>), Gt,
      Text("a"), Close("text"), Close("svg")>>

\* <rect fill="#FAFAFA" stroke-width="1" width="100" height="50"/>
DocScenario ==
    <<Open("rect"), Sp, Attr("fill", <<"#", "F", "A", "F", "A", "F", "A">>), Sp,
      Attr("stroke-width", <<"1">>), Sp, Attr("width", <<"1", "0", "0">>), Sp,
      Attr("height", <<"5", "0">>), Sgt>>

\* no .backup file
NoBackup == [exists |-> FALSE, text |-> <<>>]

BackupOf(text) == [exists |-> TRUE, text |-> text]

VARIABLES
    fs,         \* the text of every .svg file under docs/
    backup,     \* the .backup file next to every .svg file
    script,     \* the script of the current (or last) run
    pc,         \* "idle", "loop" (in the loop over the files), "done", "aborted"
                \* (left by an exception) or "stopped" (process stopped in a write)
    svg_files,  \* the list the loop of the run iterates over
    idx,        \* position in svg_files of the next file
    stats,      \* the counters of the run
    log,        \* what the run did with each file so far
    runs,       \* runs started so far
    faults,     \* input/output failures so far
    dirs,       \* the directories that exist
    content,    \* a text given to a script's transformation
    applied,    \* the script whose transformation was applied to content
    output,     \* the result of the transformation on content
    output2,    \* the result of the second transformation, on output
    round       \* 0: nothing applied; 1: the script applied to content; 2: the
                \* same script applied to output; 3: fix_svg_attributes applied
                \* to output

vars ==
    <<fs, backup, script, pc, svg_files, idx, stats, log, runs, faults, dirs,
      content, applied, output, output2, round>>

batch_vars == <<fs, backup, script, pc, svg_files, idx, stats, log, runs, faults, dirs>>

fn_vars == <<content, applied, output, output2, round>>

\* list(docs_dir.glob("**/*.svg")): the .svg files that exist under docs/
DocsGlob == SelectSeq(GlobOrder, LAMBDA p : p \in DOMAIN fs)

\* the list of files a script's main loop iterates over
Enumerate(s) ==
    IF s = "minimal_svg_fix" THEN SelectSeq(DocsGlob, InDocsSrc)
    ELSE IF s = "fix_svgs_properly" THEN SelectSeq(DocsGlob, LAMBDA p : ~IsFontOrFavicon(p))
    ELSE DocsGlob

ZeroStats == [fixed |-> 0, skipped |-> 0, unchanged |-> 0, error |-> 0]

\* the trees of files the runs start from
InitialTrees ==
    {[p \in Paths |->
         IF p = PathA THEN t[1] ELSE IF p = PathB THEN t[2] ELSE DocText] :
        t \in {<<DocXml, DocScenario>>, <<DocBadViewBox, DocPlain>>}}

BatchIdle ==
    /\ backup = [p \in Paths |-> NoBackup]
    /\ script = "none"
    /\ pc = "idle"
    /\ svg_files = <<>>
    /\ idx = 1
    /\ stats = ZeroStats
    /\ log = <<>>
    /\ runs = 0
    /\ faults = 0
    /\ dirs = UNION {Ancestors(p) : p \in Paths}

FnIdle ==
    /\ content = <<>>
    /\ applied = "none"
    /\ output = <<>>
    /\ output2 = <<>>
    /\ round = 0

Init ==
    /\ fs \in InitialTrees
    /\ BatchIdle
    /\ FnIdle

(***************************************************************************)
(* What a script does with one file.  A failure of the file system is an   *)
(* input of the step:                                                      *)
(*   "read"    open(filepath, "r") or f.read() raises                      *)
(*   "backup"  writing the .backup file raises after the file was created  *)
(*   "open"    open(filepath, "w") raises                                  *)
(*   "write"   f.write raises after open(filepath, "w") truncated the file *)
(*   "stop_open"   the process is stopped after open(filepath, "w")        *)
(*                 truncated the file and before anything was written      *)
(*   "stop_write"  the process is stopped when a part of the text, but not *)
(*                 all of it, has been written                             *)
(* The result of a step: the status of the file, its text and its .backup  *)
(* afterwards, whether the file was opened for writing, whether the        *)
(* transformed text differs from the text read, the operation that raised  *)
(* ("" if none did) and whether the failure given as input happened.       *)
(***************************************************************************)
FaultKinds == {"none", "read", "backup", "open", "write", "stop_open", "stop_write"}

Result(status, text, bak, opened, changed, raised, hit) ==
    [status |-> status, text |-> text, bak |-> bak, opened |-> opened,
     changed |-> changed, raised |-> raised, hit |-> hit]

\* with open(filepath, "r", encoding="utf-8") as f: content = f.read()  raises
ReadError(p) == Result("error", fs[p], backup[p], FALSE, FALSE, "read", TRUE)

\* the file is left alone as a font or favicon file
Skipped(p) == Result("skipped", fs[p], backup[p], FALSE, FALSE, "", FALSE)

\* a write through a temporary file that replaces the target when it is
\* complete: a failure or a stop leaves the target as it was
WriteFile_atomic(p, new, fault, bak) ==
    IF fault \in {"open", "write"}
    THEN Result("error", fs[p], bak, TRUE, new # fs[p], "write", TRUE)
    ELSE IF fault \in {"stop_open", "stop_write"}
    THEN Result("interrupted", fs[p], bak, TRUE, new # fs[p], "", TRUE)
    ELSE Result("fixed", new, bak, TRUE, new # fs[p], "", FALSE)

\* with open(filepath, "w", encoding="utf-8") as f: f.write(new)
WriteFile(p, new, fault, bak) ==
    IF fault = "open" THEN Result("error", fs[p], bak, TRUE, new # fs[p], "write", TRUE)
    ELSE IF fault = "write" THEN Result("error", <<>>, bak, TRUE, new # fs[p], "write", TRUE)
    ELSE IF fault = "stop_open"
    THEN Result("interrupted", <<>>, bak, TRUE, new # fs[p], "", TRUE)
    ELSE IF fault = "stop_write" /\ Len(new) > 0
    THEN Result("interrupted", SubSeq(new, 1, Len(new) - 1), bak, TRUE, new # fs[p], "", TRUE)
    ELSE Result("fixed", new, bak, TRUE, new # fs[p], "", FALSE)

\* fix_svgs_properly.process_all_svgs, the body of the loop; fixed_content
\* is fix_svg_content(content, svg_file.name)
properly_process_file(p, fixed_content, fault) ==
    IF fault = "read" THEN ReadError(p)
    ELSE WriteFile(p, fixed_content, fault, backup[p])

\* minimal_svg_fix.minimal_fix_svg(filepath); fixed is the content after the
\* substitutions
minimal_fix_svg(p, fixed, fault) ==
    IF fault = "read" THEN ReadError(p)
    ELSE IF IsFontOrFavicon(p) THEN Skipped(p)
    ELSE WriteFile(p, fixed, fault, backup[p])

\* safe_improve_svg without the test os.path.exists(backup_path): every
\* rewriting run writes the .backup file anew
safe_improve_svg_backup_anew(p, improved, fault) ==
    IF fault = "read" THEN ReadError(p)
    ELSE IF IsFontOrFavicon(p) THEN Skipped(p)
    ELSE IF improved # fs[p]
    THEN IF fault = "backup"
         THEN Result("error", fs[p], BackupOf(<<>>), FALSE, TRUE, "write", TRUE)
         ELSE WriteFile(p, improved, fault, BackupOf(fs[p]))
    ELSE Result("unchanged", fs[p], backup[p], FALSE, FALSE, "", FALSE)

\* safe_svg_improve.safe_improve_svg(filepath); improved is the content
\* after the substitutions
safe_improve_svg(p, improved, fault) ==
    IF fault = "read" THEN ReadError(p)
    ELSE IF IsFontOrFavicon(p) THEN Skipped(p)
    ELSE IF improved # fs[p]
    THEN IF ~backup[p].exists /\ fault = "backup"
         THEN Result("error", fs[p], BackupOf(<<>>), FALSE, TRUE, "write", TRUE)
         ELSE WriteFile(p, improved, fault,
                        IF backup[p].exists THEN backup[p] ELSE BackupOf(fs[p]))
    ELSE Result("unchanged", fs[p], backup[p], FALSE, FALSE, "", FALSE)

\* fix_all_svgs.main, the body of the loop, with fix_svg_file(filepath);
\* final_svg is the text fix_svg_file builds
fixall_fix_svg_file(p, final_svg, fault) ==
    IF IsFontOrFavicon(p) THEN Skipped(p)
    ELSE IF fault = "read" THEN ReadError(p)
    ELSE WriteFile(p, final_svg, fault, backup[p])

\* fix_svg_file without the comparison: the result is written in any case
attrs_fix_svg_file_always_writes(p, fixed_content, fault) ==
    IF fault = "read" THEN ReadError(p)
    ELSE IF IsFontOrFavicon(p) THEN Skipped(p)
    ELSE WriteFile(p, fixed_content, fault, backup[p])

\* fix_svg_attributes.fix_svg_file(filepath); fixed_content is
\* fix_malformed_attributes(content)
attrs_fix_svg_file(p, fixed_content, fault) ==
    IF fault = "read" THEN ReadError(p)
    ELSE IF IsFontOrFavicon(p) THEN Skipped(p)
    ELSE IF fixed_content # fs[p]
    THEN WriteFile(p, fixed_content, fault, backup[p])
    ELSE Result("unchanged", fs[p], backup[p], FALSE, FALSE, "", FALSE)

\* the value that stands for "create_improved_svg raised"
Raised == <<[k |-> "raised", name |-> "", val |-> <<>>]>>

\* create_improved_svg(content, filename): its result, Raised when int()
\* raises on the viewBox
beautify_improved(c) ==
    IF beautify_size(c) = <<>> THEN Raised ELSE beautify_create_improved_svg(c)

\* a loop body that opens the file for writing before it builds the text:
\* an exception of create_improved_svg leaves the file truncated
beautify_process_file_opens_first(p, improved, fault) ==
    IF IsFontOrFavicon(p) THEN Skipped(p)
    ELSE IF fault = "read" THEN ReadError(p)
    ELSE IF beautify_already_done(fs[p])
    THEN Result("already", fs[p], backup[p], FALSE, FALSE, "", FALSE)
    ELSE IF improved = Raised
    THEN Result("error", <<>>, backup[p], TRUE, FALSE, "transform", FALSE)
    ELSE WriteFile(p, improved, fault, backup[p])

\* beautify_all_svgs.process_all_svgs, the body of the loop; improved is
\* create_improved_svg(content, svg_file.name), Raised when it raises
beautify_process_file(p, improved, fault) ==
    IF IsFontOrFavicon(p) THEN Skipped(p)
    ELSE IF fault = "read" THEN ReadError(p)
    ELSE IF beautify_already_done(fs[p])
    THEN Result("already", fs[p], backup[p], FALSE, FALSE, "", FALSE)
    ELSE IF improved = Raised
    THEN Result("error", fs[p], backup[p], FALSE, FALSE, "transform", FALSE)
    ELSE WriteFile(p, improved, fault, backup[p])

\* str(e) of the exception a step raised: open() names the file in its
\* OSError, f.write() does not
ExceptionText(p, fault) ==
    IF fault \in {"read", "open"}
    THEN <<"[", "E", "r", "r", "n", "o", " ", "1", "3", "]", " ", "P", "e", "r", "m", "i", "s",
           "s", "i", "o", "n", " ", "d", "e", "n", "i", "e", "d", ":", " ", "'">>
             \o p \o <<"'">>
    ELSE <<"[", "E", "r", "r", "n", "o", " ", "2", "8", "]", " ", "N", "o", " ", "s", "p", "a",
           "c", "e", " ", "l", "e", "f", "t", " ", "o", "n", " ", "d", "e", "v", "i", "c",
           "e">>

\* the message safe_improve_svg returns with the result r of a step that
\* took the failure fault
safe_message(p, r, fault) ==
    IF r.status = "fixed" THEN
         <<"I", "m", "p", "r", "o", "v", "e", "d", " ", "s", "u", "c", "c", "e", "s", "s", "f",
           "u", "l", "l", "y">>
    ELSE IF r.status = "skipped" THEN
         <<"S", "k", "i", "p", "p", "e", "d", " ", "(", "f", "o", "n", "t", "/", "f", "a", "v",
           "i", "c", "o", "n", ")">>
    ELSE IF r.status = "unchanged" THEN
         <<"N", "o", " ", "c", "h", "a", "n", "g", "e", "s", " ", "n", "e", "e", "d", "e",
           "d">>
    ELSE <<"E", "r", "r", "o", "r", ":", " ">> \o ExceptionText(p, fault)

\* the counter safe_svg_improve.main increments for the returned result
safe_main_counts(p, returned, fault) ==
    LET message == safe_message(p, returned, fault)
    IN  IF returned.status = "fixed" THEN "fixed"
        ELSE IF Contains(message, <<"S", "k", "i", "p", "p", "e", "d">>) THEN "skipped"
        ELSE IF Contains(message,
         <<"N", "o", " ", "c", "h", "a", "n", "g", "e", "s">>) THEN "unchanged"
        ELSE "error"

\* a loop without a try block
TryCovers_nothing(s) == {}

\* the operations of a step that lie inside the script's try block
TryCovers(s) == {"read", "transform", "write"}

\* the statuses a script counts in its summary
Counted(s) ==
    IF s = "fix_svgs_properly" THEN {"fixed", "error"}
    ELSE IF s = "minimal_svg_fix" THEN {"fixed"}
    ELSE IF s = "safe_svg_improve" THEN {"fixed", "unchanged", "skipped", "error"}
    ELSE IF s = "fix_all_svgs" THEN {"fixed", "skipped", "error"}
    ELSE IF s = "fix_svg_attributes" THEN {"fixed", "unchanged", "skipped", "error"}
    ELSE {}

\* the state after the step with result r on the file svg_files[idx]
Record(r) ==
    LET p == svg_files[idx]
        inside == r.raised = "" \/ r.raised \in TryCovers(script)
    IN  /\ fs' = [fs EXCEPT ![p] = r.text]
        /\ backup' = [backup EXCEPT ![p] = r.bak]
        /\ faults' = IF r.hit THEN faults + 1 ELSE faults
        /\ pc' = IF r.status = "interrupted" THEN "stopped"
                 ELSE IF inside THEN "loop" ELSE "aborted"
        /\ idx' = IF inside THEN idx + 1 ELSE idx
        /\ log' = IF inside
                  THEN Append(log, [path |-> p, status |-> r.status, before |-> fs[p],
                                    opened |-> r.opened, changed |-> r.changed,
                                    raised |-> r.raised, bak |-> backup[p],
                                    after |-> r.text])
                  ELSE log
        /\ stats' = IF inside /\ r.status \in Counted(script)
                    THEN [stats EXCEPT ![r.status] = @ + 1]
                    ELSE stats
        /\ UNCHANGED <<script, svg_files, runs, dirs>>
        /\ UNCHANGED fn_vars

\* a step may take the failure fault
MayFail(fault, r) == fault = "none" \/ (r.hit /\ faults < MaxFaults)

InLoop(s) == pc = "loop" /\ script = s /\ idx <= Len(svg_files)

\* main() up to the loop: the files are enumerated, the counters are zero
Start(s) ==
    /\ pc \in {"idle", "done", "aborted", "stopped"}
    /\ runs < MaxRuns
    /\ script' = s
    /\ svg_files' = Enumerate(s)
    /\ idx' = 1
    /\ stats' = ZeroStats
    /\ log' = <<>>
    /\ runs' = runs + 1
    /\ pc' = "loop"
    /\ UNCHANGED <<fs, backup, faults, dirs>>
    /\ UNCHANGED fn_vars

ProcessProperly ==
    /\ InLoop("fix_svgs_properly")
    /\ \E new \in {properly_fix_svg_content(fs[svg_files[idx]])} :
       \E fault \in FaultKinds :
       \E r \in {properly_process_file(svg_files[idx], new, fault)} :
           MayFail(fault, r) /\ Record(r)

ProcessMinimal ==
    /\ InLoop("minimal_svg_fix")
    /\ \E new \in {minimal_transform(fs[svg_files[idx]])} :
       \E fault \in FaultKinds :
       \E r \in {minimal_fix_svg(svg_files[idx], new, fault)} :
           MayFail(fault, r) /\ Record(r)

\* safe_svg_improve.main, the body of the loop: the file is counted by what
\* the message of safe_improve_svg contains
ProcessSafe ==
    /\ InLoop("safe_svg_improve")
    /\ \E new \in {safe_transform(fs[svg_files[idx]])} :
       \E fault \in FaultKinds :
       \E returned \in {safe_improve_svg(svg_files[idx], new, fault)} :
       \E r \in {IF returned.status = "interrupted" THEN returned
                 ELSE [returned EXCEPT
                          !.status = safe_main_counts(svg_files[idx], returned, fault)]} :
           MayFail(fault, r) /\ Record(r)

ProcessFixAll ==
    /\ InLoop("fix_all_svgs")
    /\ \E new \in {fixall_transform(fs[svg_files[idx]])} :
       \E fault \in FaultKinds :
       \E r \in {fixall_fix_svg_file(svg_files[idx], new, fault)} :
           MayFail(fault, r) /\ Record(r)

ProcessAttributes ==
    /\ InLoop("fix_svg_attributes")
    /\ \E new \in {fix_malformed_attributes(fs[svg_files[idx]])} :
       \E fault \in FaultKinds :
       \E r \in {attrs_fix_svg_file(svg_files[idx], new, fault)} :
           MayFail(fault, r) /\ Record(r)

ProcessBeautify ==
    /\ InLoop("beautify_all_svgs")
    /\ \E new \in {beautify_improved(fs[svg_files[idx]])} :
       \E fault \in FaultKinds :
       \E r \in {beautify_process_file(svg_files[idx], new, fault)} :
           MayFail(fault, r) /\ Record(r)

\* the loop is over: the script prints its summary
Summary ==
    /\ pc = "loop"
    /\ idx > Len(svg_files)
    /\ pc' = "done"
    /\ UNCHANGED <<fs, backup, script, svg_files, idx, stats, log, runs, faults, dirs>>
    /\ UNCHANGED fn_vars

Next ==
    \/ \E s \in Scripts : Start(s)
    \/ ProcessProperly
    \/ ProcessMinimal
    \/ ProcessSafe
    \/ ProcessFixAll
    \/ ProcessAttributes
    \/ ProcessBeautify
    \/ Summary

Spec == Init /\ [][Next]_vars

(***************************************************************************)
(* rebuild_svgs.main and the runs of the other scripts around it.  The     *)
(* runs of this specification meet no failure of the file system.          *)
(***************************************************************************)
\* svgs_to_rebuild.items(): the target paths in the order of the dictionary
RebuildTargets == <<PathConversation, PathArchitecture, PathPackage>>

\* svgs_to_rebuild[filepath]
svgs_to_rebuild(filepath) ==
    IF filepath = PathConversation THEN rebuild_conversation_flow
    ELSE IF filepath = PathArchitecture THEN rebuild_architecture
    ELSE rebuild_package_system_flow

\* the tree after a step that writes only the targets that do not exist yet
rebuild_write_if_missing(filepath, tree, d) ==
    IF Parent(filepath) \in d /\ filepath \notin DOMAIN tree
    THEN [p \in DOMAIN tree \cup {filepath} |->
             IF p = filepath THEN svgs_to_rebuild(filepath) ELSE tree[p]]
    ELSE tree

\* the tree after the body of main's loop for one target: the file is
\* created or truncated and written if its parent directory exists
rebuild_write(filepath, tree, d) ==
    IF Parent(filepath) \in d
    THEN [p \in DOMAIN tree \cup {filepath} |->
             IF p = filepath THEN svgs_to_rebuild(filepath) ELSE tree[p]]
    ELSE tree

\* main() up to the loop: the three diagrams are built
StartRebuild ==
    /\ pc \in {"idle", "done", "aborted", "stopped"}
    /\ runs <= MaxRuns
    /\ script' = "rebuild_svgs"
    /\ svg_files' = RebuildTargets
    /\ idx' = 1
    /\ stats' = ZeroStats
    /\ log' = <<>>
    /\ runs' = runs + 1
    /\ pc' = "loop"
    /\ UNCHANGED <<fs, backup, faults, dirs>>
    /\ UNCHANGED fn_vars

\* main(), the body of the loop over svgs_to_rebuild.items()
RebuildFile ==
    /\ InLoop("rebuild_svgs")
    /\ LET filepath == svg_files[idx]
           exists == Parent(filepath) \in dirs
           before == IF filepath \in DOMAIN fs THEN fs[filepath] ELSE <<>>
       IN  /\ fs' = rebuild_write(filepath, fs, dirs)
           /\ log' = Append(log, [path |-> filepath,
                                  status |-> IF exists THEN "fixed" ELSE "skipped",
                                  before |-> before, opened |-> exists,
                                  changed |-> exists /\ before # svgs_to_rebuild(filepath),
                                  raised |-> "", bak |-> backup[filepath],
                                  after |-> IF exists THEN svgs_to_rebuild(filepath)
                                            ELSE before])
    /\ idx' = idx + 1
    /\ UNCHANGED <<backup, script, pc, svg_files, stats, runs, faults, dirs>>
    /\ UNCHANGED fn_vars

\* docs/src/assets is missing and one file lies elsewhere, or it exists with
\* two of the targets in it, written by someone else
RebuildTrees ==
    {[files |-> (PathA :> DocText), dirs |-> Ancestors(PathA)],
     [files |-> (PathConversation :> DocXml) @@ (PathPackage :> DocText),
      dirs |-> Ancestors(PathConversation)]}

InitRebuild ==
    /\ \E t \in RebuildTrees : fs = t.files /\ dirs = t.dirs
    /\ backup = [i \in {GlobOrder[n] : n \in 1..Len(GlobOrder)} |-> NoBackup]
    /\ script = "none"
    /\ pc = "idle"
    /\ svg_files = <<>>
    /\ idx = 1
    /\ stats = ZeroStats
    /\ log = <<>>
    /\ runs = 0
    /\ faults = MaxFaults
    /\ FnIdle

NextRebuild ==
    \/ StartRebuild
    \/ RebuildFile
    \/ \E s \in Scripts : Start(s)
    \/ ProcessProperly
    \/ ProcessMinimal
    \/ ProcessSafe
    \/ ProcessFixAll
    \/ ProcessAttributes
    \/ ProcessBeautify
    \/ Summary

SpecRebuild == InitRebuild /\ [][NextRebuild]_vars

(***************************************************************************)
(* The transformations of the scripts as functions of a text.              *)
(***************************************************************************)
\* the largest font size among the texts
MaxFont == 30

\* the text script s makes of the text c
Transform(s, c) ==
    CASE s = "fix_svgs_properly" -> properly_fix_svg_content(c)
      [] s = "minimal_svg_fix" -> minimal_transform(c)
      [] s = "safe_svg_improve" -> safe_transform(c)
      [] s = "fix_all_svgs" -> fixall_transform(c)
      [] s = "fix_svg_attributes" -> fix_malformed_attributes(c)
      [] s = "beautify_all_svgs" -> beautify_improved(c)

Keys(table) == {table[n][1] : n \in 1..Len(table)}

\* every colour some table of a script has as a key
AllKeys ==
    Keys(color_replacements) \cup Keys(color_map) \cup Keys(minimal_fill_replacements)
        \cup Keys(text_color_improvements)

\* the ways a colour is written: as in the table, in lower, upper and mixed case
Spellings(K) == {K, Lower(K), Upper(K), Mixed(K)}

IdE1 == Attr("id", <<"e", "1">>)

\* <text id="e1" ...>a</text>
TextWith(attrs) ==
    <<Open("text"), Sp, IdE1>> \o attrs \o <<Gt, Text("a"), Close("text")>>

\* <rect id="e1" ... width="10" height="5"/>
RectWith(attrs) ==
    <<Open("rect"), Sp, IdE1>> \o attrs
        \o <<Sp, Attr("width", <<"1", "0">>), Sp, Attr("height", <<"5">>), Sgt>>

\* <svg width="100" height="50"> ... </svg>
SvgDoc(body) ==
    <<Open("svg"), Sp, Attr("width", <<"1", "0", "0">>), Sp, Attr("height", <<"5", "0">>), Gt>>
        \o body \o <<Close("svg")>>

\* the font sizes 0..MaxFont, written with and without a leading zero
FontSpellings == {Str(n) : n \in 0..MaxFont} \cup {<<"0">> \o Str(n) : n \in 0..MaxFont}

FontDocs == {SvgDoc(TextWith(<<Sp, Attr("font-size", v)>>)) : v \in FontSpellings}

ColourValues == UNION {Spellings(K) : K \in AllKeys}

\* one element with a fill, with a stroke, or with both
ColourDocs ==
    {SvgDoc(TextWith(<<Sp, Attr(a, v)>>)) : a \in {"fill", "stroke"}, v \in ColourValues}
        \cup {SvgDoc(RectWith(<<Sp, Attr(a, v)>>)) : a \in {"fill", "stroke"}, v \in ColourValues}
        \cup {SvgDoc(TextWith(<<Sp, Attr("fill", v), Sp, Attr("stroke", v)>>)) : v \in ColourValues}

\* <svg width="100" height="50"><text id="e1" fill="#A0AEC0" fill="#A0AEC0">a</text></svg>
DocTwoFills ==
    SvgDoc(TextWith(<<Sp, Attr("fill", <<"#", "A", "0", "A", "E", "C", "0">>),
                      Sp, Attr("fill", <<"#", "A", "0", "A", "E", "C", "0">>)>>))

\* <svg width="100" height="50"><rect id="e1" fill="white" stroke="#CBD5E0" width="10" height="5"/></svg>
DocWhiteRect ==
    SvgDoc(RectWith(<<Sp, Attr("fill", <<"white">>),
                      Sp, Attr("stroke", <<"#", "C", "B", "D", "5", "E", "0">>)>>))

\* the ways a stray "/" stands between two attributes: "/ ", " / " and "/"
StrayForms == {<<Slash, Sp>>, <<Sp, Slash, Sp>>, <<Slash>>}

\* <rect id="e1" fill="F" stroke-width="2" rx="5" filter="url(#shadow)"> with
\* the stray "/" after the attributes named in after
MalformedRect(f, after, stray) ==
    LET gap(name) == IF name \in after THEN stray ELSE <<Sp>>
    IN  <<Open("rect"), Sp, IdE1, Sp, Attr("fill", f)>> \o gap("fill")
            \o <<Attr("stroke-width", <<"2">>)>> \o gap("stroke-width")
            \o <<Attr("rx", <<"5">>)>> \o gap("rx")
            \o <<Attr("filter", <<"url(#shadow)">>), Gt>>

MalformedRects ==
    {MalformedRect(f, after, stray) :
        f \in {<<"none">>, <<"#", "F", "0", "0">>},
        after \in {{"rx"}, {"stroke-width"}, {"fill"}, {"fill", "rx"}},
        stray \in StrayForms}

\* the tag with its closing tag inside one line of a document, or on a line
\* of its own
MalformedDocs ==
    {SvgDoc(r \o <<Close("rect")>>) : r \in MalformedRects}
        \cup {SvgDoc(<<Nl>> \o r \o <<Nl, Close("rect"), Nl>>) : r \in MalformedRects}

\* <svg width="100" height="50"><rect id="e1" fill="#F00" width="10" height="5"//></svg>
DocDoubleSlash ==
    SvgDoc(<<Open("rect"), Sp, IdE1, Sp, Attr("fill", <<"#", "F", "0", "0">>), Sp,
             Attr("width", <<"1", "0">>), Sp, Attr("height", <<"5">>), Slash, Sgt>>)

\* <svg width="100" height="50">
\* <rect id="e1" fill="none" stroke="#333" rx="5"/>
\* <path d="M0,0 L9,3" fill="#333"/>
\* <line x1="0" y1="0" x2="9" y2="3"/>
\* </svg>
DocWellFormed ==
    SvgDoc(<<Nl, Open("rect"), Sp, IdE1, Sp, Attr("fill", <<"none">>), Sp,
             Attr("stroke", <<"#", "3", "3", "3">>), Sp, Attr("rx", <<"5">>), Sgt,
             Nl, Open("path"), Sp, Attr("d", <<"M0,0 L9,3">>), Sp,
             Attr("fill", <<"#", "3", "3", "3">>), Sgt,
             Nl, Open("line"), Sp, Attr("x1", <<"0">>), Sp, Attr("y1", <<"0">>), Sp,
             Attr("x2", <<"9">>), Sp, Attr("y2", <<"3">>), Sgt, Nl>>)

\* <svg><rect stroke-width="2" width="10" height="5" rx="3"/></svg>
DocChildSize ==
    <<Open("svg"), Gt, Open("rect"), Sp, Attr("stroke-width", <<"2">>), Sp,
      Attr("width", <<"1", "0">>), Sp, Attr("height", <<"5">>), Sp, Attr("rx", <<"3">>), Sgt,
      Close("svg")>>

\* <svg width="100" height="50"><marker viewBox="0 0 10 10"></marker></svg>
DocChildViewBox ==
    SvgDoc(<<Open("marker"), Sp,
             Attr("viewBox", <<"0", " ", "0", " ", "1", "0", " ", "1", "0">>), Gt,
             Close("marker")>>)

\* <svg width="100%" height="50"><rect width="10" height="5" rx="3"/></svg>
DocPercentWidth ==
    <<Open("svg"), Sp, Attr("width", <<"1", "0", "0", "%">>), Sp, Attr("height", <<"5", "0">>),
      Gt, Open("rect"), Sp, Attr("width", <<"1", "0">>), Sp, Attr("height", <<"5">>), Sp,
      Attr("rx", <<"3">>), Sgt, Close("svg")>>

Inputs ==
    FontDocs \cup ColourDocs \cup MalformedDocs
        \cup {DocScenario, DocPlain, DocXml, DocText, DocBadViewBox, DocTwoFills, DocWhiteRect,
              DocDoubleSlash, DocWellFormed, DocChildSize, DocChildViewBox, DocPercentWidth,
              <<>>}

InitFn ==
    /\ content \in Inputs
    /\ applied = "none"
    /\ output = <<>>
    /\ output2 = <<>>
    /\ round = 0
    /\ fs = [p \in Paths |-> <<>>]
    /\ BatchIdle

\* script s has made result of the text
Applied(s, result) ==
    /\ applied' = s
    /\ output' = result
    /\ round' = 1
    /\ UNCHANGED <<content, output2>>
    /\ UNCHANGED batch_vars

ApplyProperly ==
    /\ round = 0
    /\ Applied("fix_svgs_properly", properly_fix_svg_content(content))

ApplyMinimal ==
    /\ round = 0
    /\ Applied("minimal_svg_fix", minimal_transform(content))

ApplySafe ==
    /\ round = 0
    /\ Applied("safe_svg_improve", safe_transform(content))

ApplyFixAll ==
    /\ round = 0
    /\ Applied("fix_all_svgs", fixall_transform(content))

ApplyAttributes ==
    /\ round = 0
    /\ Applied("fix_svg_attributes", fix_malformed_attributes(content))

ApplyBeautify ==
    /\ round = 0
    /\ Applied("beautify_all_svgs", beautify_improved(content))

\* the same script transforms its own output
ApplyAgain ==
    /\ round = 1
    /\ output # Raised
    /\ output2' = Transform(applied, output)
    /\ round' = 2
    /\ UNCHANGED <<content, applied, output>>
    /\ UNCHANGED batch_vars

\* fix_svg_attributes transforms the output of beautify_all_svgs or
\* fix_all_svgs, as the repair of what they wrote
ApplyRepair ==
    /\ round = 1
    /\ applied \in {"beautify_all_svgs", "fix_all_svgs"}
    /\ output # Raised
    /\ output2' = fix_malformed_attributes(output)
    /\ round' = 3
    /\ UNCHANGED <<content, applied, output>>
    /\ UNCHANGED batch_vars

NextFn ==
    \/ ApplyProperly
    \/ ApplyMinimal
    \/ ApplySafe
    \/ ApplyFixAll
    \/ ApplyAttributes
    \/ ApplyBeautify
    \/ ApplyAgain
    \/ ApplyRepair

SpecFn == InitFn /\ [][NextFn]_vars

(***************************************************************************)
(* One script run again and again on the same file.                        *)
(***************************************************************************)
\* <?xml version="1.0" encoding="UTF-8"?>\n<svg viewBox="0 0 100 50" style="max-width: 100%; height: auto;">
\* <text id="e1" font-size="12">a</text></svg>
DocXmlStyled ==
    <<Xml, Ws(<<"\n">>), Open("svg"), Sp,
      Attr("viewBox", <<"0", " ", "0", " ", "1", "0", "0", " ", "5", "0">>), Sp,
      ResponsiveStyle, Gt>>
        \o TextWith(<<Sp, Attr("font-size", <<"1", "2">>)>>) \o <<Close("svg")>>

\* <!-- diagram --><svg width="100" height="50"><text id="e1" font-size="16">a</text></svg>
DocCommentFirst ==
    <<Cmt(" diagram ")>> \o SvgDoc(TextWith(<<Sp, Attr("font-size", <<"1", "6">>)>>))

\* <svg width="100" height="50" style="display: block;"><text id="e1" font-size="9">a</text></svg>
DocStyled ==
    <<Open("svg"), Sp, Attr("width", <<"1", "0", "0">>), Sp, Attr("height", <<"5", "0">>), Sp,
      Attr("style", <<"display: block;">>), Gt>>
        \o TextWith(<<Sp, Attr("font-size", <<"9">>)>>) \o <<Close("svg")>>

\* <svg width="100" height="50"><text id="e1" font-size="12px">a</text></svg>
DocFontPx == SvgDoc(TextWith(<<Sp, Attr("font-size", <<"1", "2", "p", "x">>)>>))

\* <!-- Beautiful gradient definitions for depth --><svg width="100" height="50">
\* <text id="e1" font-size="10">a</text></svg>
DocMarked ==
    <<Cmt("Beautiful gradient definitions for depth")>>
        \o SvgDoc(TextWith(<<Sp, Attr("font-size", <<"1", "0">>)>>))

\* <svg viewBox="0 0 W H"><text id="e1" font-size="10">a</text></svg>
ViewBoxDoc(W, H) ==
    <<Open("svg"), Sp, Attr("viewBox", <<"0", " ", "0", " ">> \o W \o <<" ">> \o H), Gt>>
        \o TextWith(<<Sp, Attr("font-size", <<"1", "0">>)>>) \o <<Close("svg")>>

\* widths and heights of 0, of one to four digits and with a leading zero
ViewBoxDocs ==
    {ViewBoxDoc(W, H) :
        W \in {<<"0">>, <<"7">>, <<"1", "0", "0">>, <<"0", "5", "0">>, <<"1", "2", "0", "0">>},
        H \in {<<"0">>, <<"5", "0">>, <<"9", "6", "0">>}}

RerunInputs ==
    FontDocs \cup ViewBoxDocs
        \cup {DocXml, DocXmlStyled, DocCommentFirst, DocStyled, DocFontPx, DocText, DocPlain,
              DocBadViewBox, DocScenario, DocWhiteRect, DocMarked}

\* the scripts that rewrite the font sizes, the viewBox or the style of the
\* <svg tag
RerunScripts ==
    {"fix_svgs_properly", "minimal_svg_fix", "safe_svg_improve", "beautify_all_svgs"}

\* content is the text of the file before the first run, output its text
\* now, applied the script, round the number of runs so far
InitRerun ==
    /\ content \in RerunInputs
    /\ applied \in RerunScripts
    /\ output = content
    /\ output2 = <<>>
    /\ round = 0
    /\ fs = [p \in Paths |-> <<>>]
    /\ BatchIdle

\* after one more run the file has the text result
RunAgain(result) ==
    /\ round <= MaxRuns
    /\ output' = result
    /\ round' = round + 1
    /\ UNCHANGED <<content, applied, output2>>
    /\ UNCHANGED batch_vars

RerunProperly ==
    /\ applied = "fix_svgs_properly"
    /\ RunAgain(properly_fix_svg_content(output))

RerunMinimal ==
    /\ applied = "minimal_svg_fix"
    /\ RunAgain(minimal_transform(output))

RerunSafe ==
    /\ applied = "safe_svg_improve"
    /\ RunAgain(safe_transform(output))

\* the text of a file after the body of the loop of
\* beautify_all_svgs.process_all_svgs: a file with the marker is skipped, an
\* exception of create_improved_svg is caught before the file is opened
beautify_run(c) ==
    IF beautify_already_done(c) THEN c
    ELSE IF beautify_improved(c) = Raised THEN c
    ELSE beautify_improved(c)

RerunBeautify ==
    /\ applied = "beautify_all_svgs"
    /\ RunAgain(beautify_run(output))

NextRerun ==
    \/ RerunProperly
    \/ RerunMinimal
    \/ RerunSafe
    \/ RerunBeautify

\* the step of the run counter that every run takes; a run is possible
\* exactly as long as this step is
CountRun ==
    /\ round <= MaxRuns
    /\ round' = round + 1

\* the script is run again as long as the bound allows: a run that stays
\* possible is made
SpecRerun == InitRerun /\ [][NextRerun]_vars /\ WF_round(CountRun)

(***************************************************************************)
(* Reading a text: the element with a given id and its attributes.         *)
(***************************************************************************)
\* the text has an element with the attribute id="e1"
HasE1(c) == \E x \in 1..Len(c) : c[x] = IdE1

\* the values of the attributes called name in the tag that carries id="e1"
E1Values(c, name) ==
    LET x == FirstFrom(c, 1, LAMBDA t : t = IdE1)
        first == CHOOSE o \in 1..x : c[o].k = "open" /\ \A m \in (o + 1)..x : c[m].k # "open"
        last == IF FirstFrom(c, x, HasGt) = 0 THEN Len(c) ELSE FirstFrom(c, x, HasGt)
    IN  IF x = 0 THEN {}
        ELSE {c[m].val : m \in {n \in first..last : c[n].k = "attr" /\ c[n].name = name}}

\* the fill and stroke attributes of the text, in order
Colours(c) == SelectSeq(c, LAMBDA t : t.k = "attr" /\ t.name \in {"fill", "stroke"})

(***************************************************************************)
(* Claims about the batch runs (specification Spec).                       *)
(***************************************************************************)
\* C1: the files docs/src/FontAwesome/fa.svg and docs/Favicon.svg, whose
\* paths contain "fontawesome" and "favicon" in mixed case, keep the text
\* they had before the runs under every script: no step opens them for
\* writing, and no .backup file is made for them.
C1_SkipRule ==
    \A p \in {PathFont, PathIcon} :
        /\ fs[p] = DocText
        /\ ~backup[p].exists
        /\ \A i \in 1..Len(log) :
              log[i].path = p => ~log[i].opened /\ log[i].before = DocText

\* a run of minimal_svg_fix is over: it has met the font file and skipped
\* it, and it has rewritten docs/src/a.svg
C1_Witness ==
    /\ pc = "done"
    /\ script = "minimal_svg_fix"
    /\ \E i \in 1..Len(log) : log[i].path = PathFont /\ log[i].status = "skipped"
    /\ \E i \in 1..Len(log) :
          log[i].path = PathA /\ log[i].status = "fixed" /\ fs[PathA] # log[i].before

\* C2: an exception raised while a file is read, transformed or written
\* never leaves the loop of a run: the loop goes on with the next file of
\* the list, and when the summary is printed every file of the list has
\* been attempted, in order.
C2_FailureIsolation ==
    /\ pc # "aborted"
    /\ pc = "loop" => Len(log) = idx - 1
    /\ pc = "done" =>
          /\ Len(log) = Len(svg_files)
          /\ \A i \in 1..Len(svg_files) : log[i].path = svg_files[i]

\* a run is over in which a file raised and the next file of the list was
\* rewritten
C2_Witness ==
    /\ pc = "done"
    /\ \E i \in 1..(Len(log) - 1) :
          /\ log[i].raised # ""
          /\ \E j \in (i + 1)..Len(log) : log[j].status = "fixed"

(***************************************************************************)
(* Claims about the transformations (specification SpecFn).                *)
(***************************************************************************)
\* the smallest font size each script states for its output
FontMinimum(s) ==
    CASE s \in {"fix_svgs_properly", "minimal_svg_fix"} -> 16
      [] s \in {"fix_all_svgs", "safe_svg_improve"} -> 14
      [] s = "beautify_all_svgs" -> 12

\* C3: for every N written in digits, an element with font-size="N" in the
\* input has, after one run of fix_svgs_properly, minimal_svg_fix,
\* fix_all_svgs, safe_svg_improve or beautify_all_svgs, a font-size
\* attribute whose value is a number not below the minimum of the script:
\* 16, 16, 14, 14 and 12.
C3_FontSizeMinimum ==
    (round >= 1 /\ applied # "fix_svg_attributes" /\ output # Raised) =>
        \A v \in E1Values(content, "font-size") :
            IsDigits(v) =>
                /\ E1Values(output, "font-size") # {}
                /\ \A w \in E1Values(output, "font-size") :
                      IsDigits(w) /\ ParseInt(w) >= FontMinimum(applied)

\* fix_svgs_properly has made font-size="16" of font-size="09"
C3_Witness ==
    /\ round = 1
    /\ applied = "fix_svgs_properly"
    /\ E1Values(content, "font-size") = {<<"0", "9">>}
    /\ E1Values(output, "font-size") = {<<"1", "6">>}

\* the attributes fill and stroke
ColourAttrs == {"fill", "stroke"}

\* the value is the colour K in some spelling of its letters
IsColour(v, K) == EqIgnoreCase(v, K)

\* C4: under fix_svgs_properly, an element whose fill or stroke is a key of
\* color_replacements, in any spelling of its letters, is either gone from
\* the output or carries the value the table gives for the key, and no
\* fill or stroke attribute of the output is a key of the table.
C4_ProperlyRemap ==
    (round >= 1 /\ applied = "fix_svgs_properly") =>
        /\ \A a \in ColourAttrs : \A v \in E1Values(content, a) :
              \A n \in 1..Len(color_replacements) :
                  IsColour(v, color_replacements[n][1]) =>
                      \/ ~HasE1(output)
                      \/ E1Values(output, a) = {color_replacements[n][2]}
        /\ \A i \in 1..Len(output) :
              (IsAttr(output[i], "fill") \/ IsAttr(output[i], "stroke")) =>
                  \A K \in Keys(color_replacements) : ~IsColour(output[i].val, K)

\* fix_svg_content has made stroke="#1F2937" of stroke="#cbd5e0"
C4_Witness ==
    /\ round = 1
    /\ applied = "fix_svgs_properly"
    /\ E1Values(content, "stroke") = {<<"#", "c", "b", "d", "5", "e", "0">>}
    /\ E1Values(output, "stroke") = {<<"#", "1", "F", "2", "9", "3", "7">>}

\* C5: under fix_all_svgs, an element of the file body whose fill or stroke
\* is a key of color_map, in upper, lower or mixed case, carries in the
\* output the value the table gives for the key.
C5_FixAllRemap ==
    (round >= 1 /\ applied = "fix_all_svgs") =>
        \A a \in ColourAttrs : \A v \in E1Values(content, a) :
            \A n \in 1..Len(color_map) :
                IsColour(v, color_map[n][1]) => E1Values(output, a) = {color_map[n][2]}

\* C6 as stated: under minimal_svg_fix, an element whose fill or stroke is
\* a colour the script remaps, spelled as the script spells it, carries in
\* the output the replacement the script gives for the colour.
C6_MinimalFillAndStroke ==
    (round >= 1 /\ applied = "minimal_svg_fix") =>
        \A a \in ColourAttrs : \A v \in E1Values(content, a) :
            \A n \in 1..Len(minimal_fill_replacements) :
                v = minimal_fill_replacements[n][1] =>
                    E1Values(output, a) = {minimal_fill_replacements[n][2]}

\* C6: under minimal_svg_fix, an element whose fill is a colour the script
\* remaps, spelled as the script spells it, carries in the output the
\* replacement the script gives for the colour, and the stroke attributes
\* of the element are the ones of the input.
C6_MinimalFillOnly ==
    (round >= 1 /\ applied = "minimal_svg_fix") =>
        /\ \A v \in E1Values(content, "fill") :
              \A n \in 1..Len(minimal_fill_replacements) :
                  v = minimal_fill_replacements[n][1] =>
                      E1Values(output, "fill") = {minimal_fill_replacements[n][2]}
        /\ E1Values(output, "stroke") = E1Values(content, "stroke")

\* minimal_fix_svg has made fill="#1F2937" stroke="#CBD5E0" of
\* fill="#CBD5E0" stroke="#CBD5E0"
C6_Witness ==
    /\ round = 1
    /\ applied = "minimal_svg_fix"
    /\ E1Values(content, "fill") = {<<"#", "C", "B", "D", "5", "E", "0">>}
    /\ E1Values(content, "stroke") = {<<"#", "C", "B", "D", "5", "E", "0">>}
    /\ E1Values(output, "fill") = {<<"#", "1", "F", "2", "9", "3", "7">>}
    /\ E1Values(output, "stroke") = {<<"#", "C", "B", "D", "5", "E", "0">>}

\* the colour table of a script
TableOf(s) ==
    CASE s = "fix_svgs_properly" -> color_replacements
      [] s = "fix_all_svgs" -> color_map
      [] s = "minimal_svg_fix" -> minimal_fill_replacements
      [] s = "safe_svg_improve" -> text_color_improvements

\* token i of the text lies in the opening tag of a text element
InTextTag(c, i) ==
    \E o \in 1..(i - 1) : IsTextOpen(c[o]) /\ \A m \in o..(i - 1) : ~HasGt(c[m])

\* token i of the text is an attribute that the table of script s targets:
\* a fill or stroke with a key of the table as its value (minimal_svg_fix:
\* a fill with the key as written; safe_svg_improve: a fill of a text tag)
Targeted(s, c, i) ==
    /\ c[i].k = "attr"
    /\ \E K \in Keys(TableOf(s)) :
          CASE s = "minimal_svg_fix" -> IsAttr(c[i], "fill") /\ c[i].val = K
            [] s = "safe_svg_improve" ->
                   IsAttr(c[i], "fill") /\ IsColour(c[i].val, K) /\ InTextTag(c, i)
            [] OTHER ->
                   (IsAttr(c[i], "fill") \/ IsAttr(c[i], "stroke")) /\ IsColour(c[i].val, K)

\* C7: for fix_all_svgs, fix_svgs_properly, minimal_svg_fix and
\* safe_svg_improve no replacement colour of the table is a key of the
\* table, the second run of the script on its own output leaves every fill
\* and stroke value as the first run wrote it, and the output of the second
\* run has no attribute that the table targets.
C7_RemapIdempotent ==
    (round = 2 /\ applied \in {"fix_all_svgs", "fix_svgs_properly", "minimal_svg_fix",
                               "safe_svg_improve"}) =>
        /\ \A n \in 1..Len(TableOf(applied)) : \A K \in Keys(TableOf(applied)) :
              ~IsColour(TableOf(applied)[n][2], K)
        /\ Colours(output2) = Colours(output)
        /\ \A i \in 1..Len(output2) : ~Targeted(applied, output2, i)

ComparingScripts == {"safe_svg_improve", "fix_svg_attributes"}

\* C9 as stated: under every script, a file is opened for writing only when
\* the transformed text differs from the text that was read.
C9_EveryScriptWritesIfChanged ==
    \A i \in 1..Len(log) : log[i].opened => log[i].changed

\* C9: under safe_svg_improve and fix_svg_attributes a file is opened for
\* writing only when the transformed text differs from the text that was
\* read, and a file left unchanged is not opened; under the other four
\* scripts every file that was read and transformed, and not skipped, is
\* opened for writing.
C9_WriteIfChanged ==
    \A i \in 1..Len(log) :
        IF script \in ComparingScripts
        THEN /\ log[i].opened => log[i].changed
             /\ log[i].status = "unchanged" => ~log[i].opened /\ fs[log[i].path] = log[i].before
        ELSE (log[i].status \notin {"skipped", "already"}
              /\ log[i].raised \notin {"read", "transform"}) => log[i].opened

\* a run of fix_svg_attributes is over: one file was left unchanged and not
\* opened, another was changed and written
C9_Witness ==
    /\ pc = "done"
    /\ script = "fix_svg_attributes"
    /\ \E i \in 1..Len(log) : log[i].status = "unchanged" /\ ~log[i].opened
    /\ \E j \in 1..Len(log) :
          /\ log[j].status = "fixed" /\ log[j].opened /\ log[j].changed
          /\ fs[log[j].path] # log[j].before

\* C10 as stated: after a run of safe_improve_svg that rewrites a file, the
\* .backup file exists and holds the text the file had right before that
\* run, whatever runs came before.
C10_BackupOfLastRun ==
    script = "safe_svg_improve" =>
        \A i \in 1..Len(log) :
            log[i].status = "fixed" => backup[log[i].path] = BackupOf(log[i].before)

\* C10: after a run of safe_improve_svg that rewrites a file, the .backup
\* file exists; it holds the text the file had right before that run when
\* there was no .backup file before the run, and otherwise it is the
\* .backup file of before the run, unchanged.
C10_BackupOfFirstRun ==
    script = "safe_svg_improve" =>
        \A i \in 1..Len(log) :
            log[i].status = "fixed" =>
                /\ backup[log[i].path].exists
                /\ backup[log[i].path] =
                       IF log[i].bak.exists THEN log[i].bak ELSE BackupOf(log[i].before)

\* the second run of safe_svg_improve has rewritten a file again: the
\* .backup file is the one of the first run, not the text before this run
C10_Witness ==
    /\ script = "safe_svg_improve"
    /\ runs = 2
    /\ \E i \in 1..Len(log) :
          /\ log[i].status = "fixed"
          /\ log[i].bak.exists
          /\ backup[log[i].path] = log[i].bak
          /\ backup[log[i].path].text # log[i].before

(***************************************************************************)
(* Claims about the summaries and about interrupted runs (Spec).           *)
(***************************************************************************)
\* C11: under every script, a file whose processing raised an exception
\* gets a printed error line and is counted as an error, never as skipped,
\* unchanged or improved, and the summary of a finished run reports as many
\* errors as files raised.
C11_ErrorAccounting ==
    /\ \A i \in 1..Len(log) : log[i].raised # "" => log[i].status = "error"
    /\ pc = "done" =>
          stats.error = Cardinality({i \in 1..Len(log) : log[i].raised # ""})

\* the text a is the beginning of the text b
IsPrefix(a, b) == Len(a) <= Len(b) /\ SubSeq(b, 1, Len(a)) = a

\* C12: when the process stops between opening a file for writing and the
\* end of the write, the file holds a beginning of the new text: it is not
\* the complete new text (when there is a text to write) and not the old
\* text (when the file was not empty); the files handled earlier in the
\* run are as the run left them, and nothing has restored the interrupted
\* file.
C12_NoAtomicWrite ==
    pc = "stopped" =>
        LET e == log[Len(log)]
            new == Transform(script, e.before)
        IN  /\ e.status = "interrupted" /\ e.opened
            /\ IsPrefix(fs[e.path], new)
            /\ new # <<>> => fs[e.path] # new
            /\ e.before # <<>> => fs[e.path] # e.before
            /\ \A i \in 1..(Len(log) - 1) : fs[log[i].path] = log[i].after

\* fix_svgs_properly was stopped in the write of its second file: the first
\* file is rewritten, the second is empty
C12_Witness ==
    /\ pc = "stopped"
    /\ script = "fix_svgs_properly"
    /\ Len(log) = 2
    /\ log[1].status = "fixed"
    /\ fs[log[1].path] = log[1].after
    /\ log[1].after # log[1].before
    /\ log[2].before # <<>>
    /\ fs[log[2].path] = <<>>

(***************************************************************************)
(* Claims about rebuild_svgs (specification SpecRebuild).                  *)
(***************************************************************************)
\* C13: rebuild_svgs.main is deterministic and idempotent: every target path
\* main has dealt with whose parent directory exists holds the fixed text of
\* its diagram, whatever the file held before and whatever scripts ran
\* before this run; a target whose parent directory is missing is not created
C13_RebuildFixedContent ==
    (script = "rebuild_svgs" /\ pc \in {"loop", "done"}) =>
        \A i \in 1..(idx - 1) :
            LET p == RebuildTargets[i]
            IN  IF Parent(p) \in dirs
                THEN p \in DOMAIN fs /\ fs[p] = svgs_to_rebuild(p)
                ELSE p \notin DOMAIN fs

\* safe_svg_improve rewrote a target and kept a backup of it, then main ran
\* to its end over the rewritten files
C13_Witness ==
    /\ script = "rebuild_svgs" /\ pc = "done" /\ runs = 2
    /\ backup[PathConversation].exists
    /\ log[1].before # backup[PathConversation].text
    /\ log[1].before # svgs_to_rebuild(PathConversation)
    /\ fs[PathConversation] = rebuild_conversation_flow
    /\ log[2].before = <<>> /\ fs[PathArchitecture] = rebuild_architecture

(***************************************************************************)
(* Claims about the repair of malformed tags (specification SpecFn).       *)
(***************************************************************************)
\* the tag that carries id="e1", from its "<" to the first ">" after it
E1Tag(c) ==
    LET x == FirstFrom(c, 1, LAMBDA t : t = IdE1)
        first == CHOOSE o \in 1..x : c[o].k = "open" /\ \A m \in (o + 1)..x : c[m].k # "open"
        last == IF FirstFrom(c, x, HasGt) = 0 THEN Len(c) ELSE FirstFrom(c, x, HasGt)
    IN  IF x = 0 THEN <<>> ELSE SubSeq(c, first, last)

\* the attributes of a tag in their order
AttrsOf(tag) == SelectSeq(tag, LAMBDA t : t.k = "attr")

WellFormedRect(tag) ==
    /\ Len(tag) >= 2
    /\ tag[1] = Open("rect")
    /\ tag[Len(tag)].k = "sgt"
    /\ \A i \in 2..(Len(tag) - 1) :
          /\ tag[i].k \in {"attr", "ws"}
          /\ tag[i].k = "attr" => tag[i - 1].k = "ws"

\* the text has a well-formed self-closing rect with id="e1" and without rx
HasPlainRect(c) ==
    /\ HasE1(c)
    /\ WellFormedRect(E1Tag(c))
    /\ \A i \in 1..Len(E1Tag(c)) : ~IsAttr(E1Tag(c)[i], "rx")

\* C15: after beautify_all_svgs or fix_all_svgs and then fix_svg_attributes,
\* every self-closing rect without rx of the input is again one well-formed
\* self-closing rect tag, whatever its fill
C15_RepairRestoresRect ==
    (round = 3 /\ HasPlainRect(content)) => WellFormedRect(E1Tag(output2))

\* C15, the part that holds: the repaired tag has no "/" between its
\* attributes, and it is self-closing again when its line carries
\* fill="none", fill="transparent" or fill="white" at the time of the repair
C15_RepairRemovesSlash ==
    (round = 3 /\ HasPlainRect(content)) =>
        LET tag == E1Tag(output2)
        IN  /\ tag[1] = Open("rect")
            /\ \A i \in 2..(Len(tag) - 1) : tag[i].k \in {"attr", "ws"}
            /\ E1Values(output2, "fill") \cap {<<"none">>, <<"transparent">>, <<"white">>} # {}
                   <=> tag[Len(tag)].k = "sgt"

\* C16: fix_malformed_attributes is idempotent: applied to its own result
\* it returns that result, for the result it makes of an input text and for
\* the result it makes of what beautify_all_svgs or fix_all_svgs wrote, so
\* the test fixed_content != content of a second run is false
C16_FixerIdempotent ==
    /\ (round = 2 /\ applied = "fix_svg_attributes") => output2 = output
    /\ round = 3 => fix_malformed_attributes(output2) = output2

\* every tag of the text is well formed: after the name of an element come
\* attributes, each with white space before it, and then ">" or "/>"; no
\* "/" stands alone and no closing tag lacks its ">"
WellFormedTags(c) ==
    /\ c # <<>>
    /\ \A i \in 1..Len(c) :
          /\ c[i].k \in {"open", "attr", "ws", "gt", "sgt", "close", "xml", "cmt", "text"}
          /\ c[i].k = "attr" => (i > 2 /\ c[i - 1].k = "ws" /\ c[i - 2].k \in {"open", "attr"})
          /\ c[i].k = "open" =>
                 \E j \in (i + 1)..Len(c) :
                     /\ c[j].k \in {"gt", "sgt"}
                     /\ \A m \in (i + 1)..(j - 1) : c[m].k \in {"attr", "ws"}
          /\ c[i].k \in {"gt", "sgt"} =>
                 \E j \in 1..(i - 1) :
                     /\ c[j].k = "open"
                     /\ \A m \in (j + 1)..(i - 1) : c[m].k \in {"attr", "ws"}

\* C17: fix_svg_attributes leaves a text alone in which every tag is well
\* formed: fix_malformed_attributes returns the text it was given, so
\* fix_svg_file returns "unchanged" and does not write
C17_WellFormedUnchanged ==
    (round >= 1 /\ applied = "fix_svg_attributes" /\ WellFormedTags(content)) =>
        output = content

\* C17, the part that holds: a well-formed text in which no attribute value
\* is directly followed by "/>" is returned as it is
C17_NoSelfClosingUnchanged ==
    (/\ round >= 1 /\ applied = "fix_svg_attributes" /\ WellFormedTags(content)
     /\ \A i \in 1..Len(content) : content[i].k # "sgt") =>
        output = content

\* C18: the rect tag that fix_all_svgs (add_rounded_corners) or
\* beautify_all_svgs (improve_rect) makes of a self-closing rect without rx
\* carries rx, has no "/" before the added attributes and ends in one "/>"
C18_RoundedRectWellFormed ==
    (/\ round >= 1 /\ applied \in {"fix_all_svgs", "beautify_all_svgs"}
     /\ output # Raised /\ HasPlainRect(content)) =>
        /\ E1Values(output, "rx") # {}
        /\ WellFormedRect(E1Tag(output))

\* C18, what the two scripts do: the "/" of the input tag stays where it was
\* and the added attributes follow it
C18_SlashBeforeAddedAttributes ==
    (/\ round >= 1 /\ applied \in {"fix_all_svgs", "beautify_all_svgs"}
     /\ output # Raised /\ HasPlainRect(content)) =>
        LET tag == E1Tag(output)
            n == Len(AttrsOf(E1Tag(content)))
            slash == FirstFrom(tag, 1, LAMBDA t : t.k = "slash")
        IN  /\ slash # 0
            /\ Len(AttrsOf(SubSeq(tag, 1, slash))) = n
            /\ IsAttr(tag[slash + 2], "rx")

(***************************************************************************)
(* Claims about repeated runs on one file (specification SpecRerun).       *)
(***************************************************************************)
\* the number of style attributes in the first <svg tag of the text
RootStyleCount(c) ==
    LET span == SvgTagSpan(c)
    IN  IF span = <<>> THEN 0
        ELSE Cardinality({m \in span[1]..span[2] : IsAttr(c[m], "style")})

\* the first ">" of the text is the one that ends its first <svg tag: nothing
\* with a ">" (XML declaration, comment, another tag) stands before the tag
SvgTagFirst(c) ==
    /\ SvgTagSpan(c) # <<>>
    /\ FirstFrom(c, 1, HasGt) = SvgTagSpan(c)[2]

\* C19: a file whose <svg tag has at most one style attribute, with or
\* without an XML declaration or comment before the tag, has at most one
\* style attribute in that tag after any number of runs of minimal_svg_fix
\* or of safe_svg_improve
C19_SingleStyleAttribute ==
    (applied \in {"minimal_svg_fix", "safe_svg_improve"} /\ RootStyleCount(content) <= 1) =>
        RootStyleCount(output) <= 1

\* C19, the part that holds: when the file begins with its <svg tag, the tag
\* has at most one style attribute after every run
C19_SvgFirstSingleStyle ==
    (/\ applied \in {"minimal_svg_fix", "safe_svg_improve"}
     /\ RootStyleCount(content) <= 1 /\ SvgTagFirst(content)) =>
        RootStyleCount(output) <= 1

\* C19, what happens otherwise: when something with a ">" stands before the
\* <svg tag, every run adds one more style attribute to the tag
C19_StylePerRun ==
    (/\ applied \in {"minimal_svg_fix", "safe_svg_improve"}
     /\ HasSvg(content) /\ ~SvgTagFirst(content)) =>
        RootStyleCount(output) = RootStyleCount(content) + round

\* the font-size attributes of the text, in order
FontSizeAttributes(c) == SelectSeq(c, LAMBDA t : IsAttr(t, "font-size"))

\* one more run of the script would leave every font-size value as it is
RunKeepsFontSizes ==
    FontSizeAttributes(Transform(applied, output)) = FontSizeAttributes(output)

C20_EveryRunChangesFontSize ==
    applied \in {"fix_svgs_properly", "minimal_svg_fix"} =>
        LET before == FontSizeAttributes(output)
            after == FontSizeAttributes(Transform(applied, output))
        IN  /\ Len(after) = Len(before)
            /\ \A i \in 1..Len(before) :
                   IF IsDigits(before[i].val)
                   THEN /\ ParseInt(after[i].val) > ParseInt(before[i].val)
                        /\ round >= 1 => ParseInt(after[i].val) = ParseInt(before[i].val) + 4
                   ELSE after[i] = before[i]

\* C20 for the third script: under safe_svg_improve, which leaves a size of
\* 14 or more as it is, the values stop changing after the first run
C20_SafeStabilises ==
    <>[](applied = "safe_svg_improve" => RunKeepsFontSizes)

\* C21: every text beautify_all_svgs writes contains the marker, and a file
\* with the marker is not written again: after any number of runs of
\* beautify_all_svgs the file has the text the first run left, so at most
\* one run has transformed it
C21_BeautifiedOnce ==
    (applied = "beautify_all_svgs" /\ round >= 1) =>
        /\ output = beautify_run(content)
        /\ output # content => beautify_already_done(output)
        /\ beautify_already_done(content) => output = content

\* C21 in the runs over the files: beautify_all_svgs does not open a file
\* with the marker for writing, and a text it has written in full has the
\* marker
C21_MarkedFileNotOpened ==
    script = "beautify_all_svgs" =>
        \A i \in 1..Len(log) :
            /\ beautify_already_done(log[i].before) =>
                   (~log[i].opened /\ log[i].after = log[i].before)
            /\ log[i].status = "fixed" => beautify_already_done(log[i].after)

\* a file that the first run transformed and two later runs left alone
C21_Witness ==
    /\ applied = "beautify_all_svgs"
    /\ round = 3
    /\ ~beautify_already_done(content)
    /\ output # content
    /\ beautify_already_done(output)

\* the viewBox attributes of the text, in order
ViewBoxAttributes(c) == SelectSeq(c, LAMBDA t : IsAttr(t, "viewBox"))

\* the value is "0 0 W H" with W and H written in digits
IsOriginViewBox(v) ==
    /\ Len(SplitWs(v)) = 4
    /\ SplitWs(v)[1] = <<"0">> /\ SplitWs(v)[2] = <<"0">>
    /\ IsDigits(SplitWs(v)[3]) /\ IsDigits(SplitWs(v)[4])
    /\ v = <<"0", " ", "0", " ">> \o SplitWs(v)[3] \o <<" ">> \o SplitWs(v)[4]

\* the only viewBox attribute of the text is in its first <svg tag, with a
\* value "0 0 W H"
RootViewBoxOnly(c) ==
    /\ SvgTagSpan(c) # <<>>
    /\ Len(ViewBoxAttributes(c)) = 1
    /\ \E m \in SvgTagSpan(c)[1]..SvgTagSpan(c)[2] : IsAttr(c[m], "viewBox")
    /\ IsOriginViewBox(ViewBoxAttributes(c)[1].val)

\* "-20 -20 W+40 H+40" for the value "0 0 W H"
PaddedViewBox(v) ==
    <<"-", "2", "0", " ", "-", "2", "0", " ">> \o Str(ParseInt(SplitWs(v)[3]) + 40)
        \o <<" ">> \o Str(ParseInt(SplitWs(v)[4]) + 40)

\* C22: for a file whose only viewBox is "0 0 W H" on the root <svg tag,
\* the first run of fix_svgs_properly makes it "-20 -20 W+40 H+40" and every
\* later run leaves that value: after any number of runs the text has this
\* one viewBox
C22_ViewBoxPaddedOnce ==
    (applied = "fix_svgs_properly" /\ round >= 1 /\ RootViewBoxOnly(content)) =>
        ViewBoxAttributes(output)
            = <<Attr("viewBox", PaddedViewBox(ViewBoxAttributes(content)[1].val))>>

\* three runs on a file that starts with an XML declaration and whose root
\* has viewBox="0 0 100 50"
C22_Witness ==
    /\ applied = "fix_svgs_properly"
    /\ round = 3
    /\ content = DocXml
    /\ RootViewBoxOnly(content)
    /\ ViewBoxAttributes(output)[1].val
           = <<"-", "2", "0", " ", "-", "2", "0", " ", "1", "4", "0", " ", "9", "0">>

(***************************************************************************)
(* Claims about backgrounds and the viewBox (specification SpecFn).        *)
(***************************************************************************)
\* the fills of the rects that step 4 of fix_svg_content names
BackgroundFills ==
    {<<"#", "F", "A", "F", "A", "F", "A">>, <<"white">>,
     <<"#", "F", "F", "F", "F", "F", "F">>, <<"#", "f", "f", "f", "f", "f", "f">>}

\* the element with id="e1" is a rect with one of these fills
HasBackgroundRect(c) ==
    /\ HasE1(c)
    /\ IsOpen(E1Tag(c)[1], "rect")
    /\ E1Values(c, "fill") \cap BackgroundFills # {}

\* C23: fix_svg_content of fix_svgs_properly removes every rect whose fill
\* is "#FAFAFA", "white", "#FFFFFF" or "#ffffff": the rect is not in the
\* output, in no colour
C23_BackgroundsRemoved ==
    (round >= 1 /\ applied = "fix_svgs_properly" /\ HasBackgroundRect(content)) =>
        ~HasE1(output)

\* C23, what fix_svg_content does: it removes the rect with fill="white";
\* the rect with fill="#FAFAFA" stays with fill="transparent" and the rects
\* with fill="#FFFFFF" and fill="#ffffff" stay with fill="#111827"
C23_OnlyWhiteRemoved ==
    (round >= 1 /\ applied = "fix_svgs_properly" /\ HasBackgroundRect(content)) =>
        LET fill == CHOOSE v \in E1Values(content, "fill") : TRUE
        IN  IF fill = <<"white">> THEN ~HasE1(output)
            ELSE /\ HasE1(output)
                 /\ IsOpen(E1Tag(output)[1], "rect")
                 /\ E1Values(output, "fill") =
                        IF fill = <<"#", "F", "A", "F", "A", "F", "A">>
                        THEN {<<"transparent">>}
                        ELSE {<<"#", "1", "1", "1", "8", "2", "7">>}

\* the value of the viewBox attribute in the first <svg tag of the text,
\* <<>> if the tag has none
RootViewBox(c) ==
    LET span == SvgTagSpan(c)
        m == FirstFrom(SubSeq(c, span[1], span[2]), 1, LAMBDA t : IsAttr(t, "viewBox"))
    IN  IF span = <<>> \/ m = 0 THEN <<>> ELSE c[span[1] + m - 1].val

\* the viewBox derived from the first <svg tag alone: its viewBox, else
\* "0 0 W H" from its width and its height, else "0 0 800 600"
RootDerivedViewBox(c) ==
    LET span == SvgTagSpan(c)
        root == SubSeq(c, span[1], span[2])
        w == FirstFrom(root, 1, LAMBDA t : t.k = "attr" /\ t.name = "width" /\ IsDigits(t.val))
        h == FirstFrom(root, 1, LAMBDA t : t.k = "attr" /\ t.name = "height" /\ IsDigits(t.val))
    IN  IF RootViewBox(c) # <<>> THEN RootViewBox(c)
        ELSE IF w # 0 /\ h # 0
        THEN <<"0", " ", "0", " ">> \o root[w].val \o <<" ">> \o root[h].val
        ELSE <<"0", " ", "0", " ", "8", "0", "0", " ", "6", "0", "0">>

\* the value after step 9 of fix_svgs_properly, which pads a viewBox of four
\* unsigned integers
PaddedIfUnsigned(v) ==
    IF IsUnsignedViewBox(v)
    THEN Str(ParseInt(SplitWs(v)[1]) - 20) \o <<" ">> \o Str(ParseInt(SplitWs(v)[2]) - 20)
             \o <<" ">> \o Str(ParseInt(SplitWs(v)[3]) + 40) \o <<" ">>
             \o Str(ParseInt(SplitWs(v)[4]) + 40)
    ELSE v

\* no element but the first <svg tag has a viewBox, a width, a height or a
\* stroke-width attribute
SizesOnlyInRoot(c) ==
    \A m \in 1..Len(c) :
        (IsAttr(c[m], "viewBox") \/ IsAttr(c[m], "width") \/ IsAttr(c[m], "height")) =>
            (m >= SvgTagSpan(c)[1] /\ m <= SvgTagSpan(c)[2])

\* C24: the viewBox that fix_all_svgs and fix_svgs_properly give the new
\* <svg tag comes from the old <svg tag alone (its viewBox, else its width
\* and height, else "0 0 800 600"), whatever the other elements carry; in
\* fix_svgs_properly step 9 then pads the value
C24_ViewBoxFromRoot ==
    (round >= 1 /\ SvgTagSpan(content) # <<>>) =>
        /\ applied = "fix_all_svgs" => RootViewBox(output) = RootDerivedViewBox(content)
        /\ applied = "fix_svgs_properly" =>
               RootViewBox(output) = PaddedIfUnsigned(RootDerivedViewBox(content))

\* C24, the part that holds: when no other element has a viewBox, a width,
\* a height or a stroke-width, the value comes from the <svg tag
C24_ViewBoxFromRootAlone ==
    (round >= 1 /\ SvgTagSpan(content) # <<>> /\ SizesOnlyInRoot(content)) =>
        /\ applied = "fix_all_svgs" => RootViewBox(output) = RootDerivedViewBox(content)
        /\ applied = "fix_svgs_properly" =>
               RootViewBox(output) = PaddedIfUnsigned(RootDerivedViewBox(content))

\* C24, what the two scripts do: the value is the first viewBox="..." of
\* the whole text, else the first width="digits" and the first
\* height="digits" of the whole text, that of a stroke-width included
C24_ViewBoxFromWholeText ==
    (round >= 1 /\ SvgTagSpan(content) # <<>>) =>
        /\ applied = "fix_all_svgs" => RootViewBox(output) = DeriveViewBox(content)
        /\ applied = "fix_svgs_properly" =>
               RootViewBox(output) = PaddedIfUnsigned(DeriveViewBox(content))

(***************************************************************************)
(* Claims about exceptions before the write (specification Spec).          *)
(***************************************************************************)
\* C25: in every script, a file whose reading or transformation raised an
\* exception was not opened for writing, and the file and its .backup are
\* after the step, and for the rest of the run, what they were before
C25_UnchangedOnError ==
    \A i \in 1..Len(log) :
        log[i].raised \in {"read", "transform"} =>
            /\ ~log[i].opened
            /\ log[i].after = log[i].before
            /\ fs[log[i].path] = log[i].before
            /\ backup[log[i].path] = log[i].bak

\* a run of beautify_all_svgs is over in which create_improved_svg raised on
\* the viewBox "0 0 100.5 20" of one file and another file was rewritten
C25_Witness ==
    /\ pc = "done"
    /\ script = "beautify_all_svgs"
    /\ \E i \in 1..Len(log) :
          /\ log[i].raised = "transform"
          /\ log[i].before = DocBadViewBox
          /\ fs[log[i].path] = DocBadViewBox
    /\ \E j \in 1..Len(log) : log[j].status = "fixed"

\* a run is over in which reading a file raised
C25_WitnessRead ==
    /\ pc = "done"
    /\ \E i \in 1..Len(log) : log[i].raised = "read" /\ log[i].before # <<>>

====
